---- MODULE Spec2Model ----
(***************************************************************************)
(* Position reconciliation of the Hyperliquid position tracker:            *)
(* PositionTable.fetchPositions / fetchCurrentPrices (poll cycle, price    *)
(* cache) and lib/database.ts (tracked_positions, position_history,        *)
(* notification_logs accessors).                                           *)
(*                                                                         *)
(* Time is in milliseconds.  A poll cycle is an async function: each       *)
(* action below is the code that runs between two awaits of one cycle, so  *)
(* cycles interleave at the awaits.  The upstream exchange is an opaque    *)
(* data source: every response it gives is an input of the step that       *)
(* receives it.                                                            *)
(***************************************************************************)
EXTENDS Integers, Sequences, FiniteSets, TLC

VARIABLES
  now,            \* Date.now()
  addresses,      \* prop `addresses` of PositionTable: Seq of AddressWithAlias
  recipients,     \* active rows of notification_emails
  inactiveEmails, \* rows of notification_emails with is_active false
  tracked,        \* table tracked_positions: set of rows
  history,        \* table position_history: sequence of inserted rows
  logs,           \* table notification_logs: <<key, sent>> -> number of rows
  priceCache,     \* React state priceCache (a Map)
  effectCache,    \* priceCache as captured by the closure of the interval effect
  isInitialLoad,  \* React state isInitialLoad
  effectInitial,  \* isInitialLoad as captured by the closure of the interval effect
  loading,        \* React state loading
  started,        \* number of poll cycles started so far
  lastWrite,      \* per key: the last write applied to its tracked_positions row
  fetches,        \* the successful allMids requests so far: time and map returned
  cycle,          \* per poll cycle in flight: the locals of fetchPositions
  view,           \* React state trackedPositions, positions, newPositions,
                  \* closedPositions, allPositions
  hiddenPositions, \* React state hiddenPositions (a Set of position keys)
  ui,             \* React state sortConfig, tabPagination, activeTab and the
                  \* four filters
  forms,          \* React state of AddressManagement and SettingsPage:
                  \* the text fields, the error messages, the email list
  hiddenStore     \* the hidden_positions table (rows) and the toggleHidePosition
                  \* calls that await their store call (pending)

vars == <<now, addresses, recipients, tracked, history,
          logs, priceCache, effectCache, isInitialLoad, effectInitial, loading,
          started, lastWrite, fetches, cycle, view, hiddenPositions, ui,
          forms, hiddenStore, inactiveEmails>>

----------------------------------------------------------------------------
(* Bounds of the model *)
MaxCycles == 3
MaxSteps == 4
MaxDays == 1
MaxHours == 2
MaxLen == 2
MaxPage == 2

(* Program constants *)
batchSize == 3
CacheTtlMs == 30000
NewWindowHours == 24
maxAttempts == 3
NewTabHours == 1

StepMs == 10000
HourMs == 3600000

\* SQL NULL of a timestamp column
NoTime == -1

\* entryPx of every snapshot position, hence entry_price of every stored row
EntryPrice == 40
TS == "_timestamp"

CycleIds == {1, 2}
Assets == {"BTC"}
AllAddresses == {"0xa1", "0xa2", "0xa3", "0xa4"}
Szis == {0, -1, 2}
Mids == {50, 60}

Wallet(a, n) == [address |-> a, notifications_enabled |-> n]

OneWallet == <<Wallet("0xa1", TRUE)>>
QuietWallet == <<Wallet("0xa1", FALSE)>>
TwoWallets == <<Wallet("0xa1", TRUE), Wallet("0xa2", FALSE)>>
ThreeWallets == <<Wallet("0xa1", TRUE), Wallet("0xa2", FALSE),
                  Wallet("0xa3", FALSE)>>
FourWallets == <<Wallet("0xa1", TRUE), Wallet("0xa2", FALSE),
                 Wallet("0xa3", FALSE), Wallet("0xa4", FALSE)>>

----------------------------------------------------------------------------
(* Helpers *)

PositionKey(address, asset) == <<address, asset>>

Keys == {PositionKey(a, s) : a \in AllAddresses, s \in Assets}

\* notification_logs rows are counted per key, size and notification_sent
LogKeys == Keys \X (Szis \ {0}) \X BOOLEAN

\* Map.size and Map.get(k) || dflt of a JS Map modelled as a function
MapSize(m) == Cardinality(DOMAIN m)
MapGetOr(m, k, dflt) == IF k \in DOMAIN m THEN m[k] ELSE dflt
EmptyMap == [x \in {} |-> 0]

RowsWithKey(rows, k) == {r \in rows : r.position_key = k}
HasKey(rows, k) == RowsWithKey(rows, k) # {}
RowOf(rows, k) == CHOOSE r \in rows : r.position_key = k

AddressIndex == 1..Len(addresses)
IndexOfAddress(a) == CHOOSE i \in AddressIndex : addresses[i].address = a

\* the position keys of the tracked wallets
WalletKeys == {PositionKey(addresses[i].address, s) : i \in AddressIndex, s \in Assets}

\* the batch count rounded down: a partial last batch is dropped
NumBatchesFloor == Len(addresses) \div batchSize

\* addressBatches: addresses.slice(i, i + batchSize) for i = 0, batchSize, ...
NumBatches == (Len(addresses) + batchSize - 1) \div batchSize
\* every address requested at once, in the first batch
BatchMembersAll(b) == IF b = 1 THEN AddressIndex ELSE {}

BatchMembers(b) ==
  {i \in AddressIndex : (b - 1) * batchSize < i /\ i <= b * batchSize}

\* no write has reached the row of a key yet
NoWrite == [op |-> "none", size |-> 0, status |-> "", n |-> 0]

IdleCycle ==
  [pc |-> "idle", kind |-> "none", seenCache |-> EmptyMap, prev |-> {},
   batch |-> 0, pending |-> {}, currentKeys |-> {}, updates |-> {},
   notifs |-> {}, failed |-> {}, answered |-> {}, unstored |-> {},
   written |-> {}, histBase |-> 0, pricePc |-> "none", priceAt |-> 0, networkCall |-> FALSE,
   priceOutcome |-> "none",
   currentPrices |-> EmptyMap,
   upc |-> [k \in {} |-> "done"], isNew |-> {}, npc |-> {},
   cpc |-> [k \in {} |-> "done"], closeNow |-> 0, closeRow |-> [k \in {} |-> 0],
   attempts |-> [k \in {} |-> 0],
   attemptCount |-> [k \in {} |-> 0],
   allData |-> {}, newData |-> {}, readAt |-> 0,
   calls |-> [k \in {} |-> 0], result |-> [k \in {} |-> FALSE],
   writeFailed |-> {}, failedBefore |-> {}, delays |-> 0,
   mids |-> EmptyMap, seq |-> 0]

----------------------------------------------------------------------------
(* Environment *)

\* ten seconds pass: between polls, before the price request is made and
\* while it is in flight (the instants at which the price cache reads the clock)
TickStep ==
  /\ (now % (NewWindowHours * HourMs)) \div StepMs < MaxSteps
  /\ \A c \in CycleIds : \/ cycle[c].pc \in {"idle", "done", "reading", "fetching", "delay", "ready"}
                         \/ cycle[c].pc = "fanout" /\ cycle[c].pricePc = "inflight"
  /\ now' = now + StepMs
  /\ UNCHANGED <<addresses, recipients, tracked,
                 history, logs, priceCache, effectCache, isInitialLoad,
                 effectInitial, loading, started, lastWrite, fetches, cycle,
                 view, hiddenPositions, ui, forms, hiddenStore, inactiveEmails>>

\* an hour passes between two polls
TickHour ==
  /\ (now % (NewWindowHours * HourMs)) \div HourMs < MaxHours
  /\ \A c \in CycleIds : cycle[c].pc \in {"idle", "done"}
  /\ now' = now + HourMs
  /\ UNCHANGED <<addresses, recipients, tracked,
                 history, logs, priceCache, effectCache, isInitialLoad,
                 effectInitial, loading, started, lastWrite, fetches, cycle,
                 view, hiddenPositions, ui, forms, hiddenStore, inactiveEmails>>

\* a day passes between two polls (the clock within a poll moves by TickStep)
TickDay ==
  /\ now \div (NewWindowHours * HourMs) < MaxDays
  /\ \A c \in CycleIds : cycle[c].pc \in {"idle", "done"}
  /\ now' = now + NewWindowHours * HourMs
  /\ UNCHANGED <<addresses, recipients, tracked,
                 history, logs, priceCache, effectCache, isInitialLoad,
                 effectInitial, loading, started, lastWrite, fetches, cycle,
                 view, hiddenPositions, ui, forms, hiddenStore, inactiveEmails>>

----------------------------------------------------------------------------
(* fetchPositions *)

\* getTrackedPositions() without a status argument: the two .or() filters are
\* conjoined.  is_active is never stored as NULL (column default true, every
\* write sets it), so "is_active true or null" is is_active = TRUE here.
TrackedFilter(rows) ==
  {r \in rows : /\ r.status \in {"active", "new"}
                /\ r.is_active = TRUE}

getTrackedPositions(ok) == IF ok THEN TrackedFilter(tracked) ELSE {}

\* getNewPositions(hours): the rows with status new created at or after the
\* cutoff, hours before t
getNewPositions(hours, t, ok) ==
  IF ok
  THEN {r \in tracked : r.status = "new" /\ r.created_at >= t - hours * HourMs}
  ELSE {}

getAllTrackedPositions(ok) == IF ok THEN tracked ELSE {}

getClosedPositions(ok) == IF ok THEN {r \in tracked : r.status = "closed"} ELSE {}

\* fetchPositions is entered: by the interval effect running (mount or a
\* dependency change), by a timer tick of that effect, or by the refresh button
\* a timer that skips its tick while a poll is still loading
TimerFiresWhenIdle(initial, busy) == ~initial /\ ~busy

\* the interval callback: if (addresses.length > 0 && !isInitialLoad), with
\* isInitialLoad as the effect captured it; loading is not consulted
TimerFires(initial, busy) == ~initial

StartCycle(c, kind) ==
  /\ cycle[c].pc \in {"idle", "done"}
  /\ \A d \in CycleIds : d < c => cycle[d].pc \notin {"idle", "done"}
  /\ started < MaxCycles
  /\ Len(addresses) > 0
  /\ kind = "timer" => TimerFires(effectInitial, loading)
  /\ kind = "refresh" => ~loading
  /\ cycle' = [cycle EXCEPT ![c] =
        [IdleCycle EXCEPT !.pc = "reading", !.kind = kind, !.seq = started + 1,
           !.seenCache = IF kind = "timer" THEN effectCache ELSE priceCache,
           !.failedBefore = (cycle[c].failedBefore \ DOMAIN cycle[c].upc)
                              \cup cycle[c].writeFailed]]
  /\ effectCache' = IF kind = "effect" THEN priceCache ELSE effectCache
  /\ effectInitial' = IF kind = "effect" THEN isInitialLoad ELSE effectInitial
  /\ loading' = TRUE
  /\ started' = started + 1
  /\ UNCHANGED <<now, addresses, recipients, tracked,
                 history, logs, priceCache, isInitialLoad, lastWrite, fetches,
                 view, hiddenPositions, ui, forms, hiddenStore, inactiveEmails>>

\* the initial Promise.all of store reads resolves (the reads are answered by
\* one store from one state of the table: they succeed or fail together);
\* setTrackedPositions(previouslyTracked).  closedPositionsData is the closed
\* part of allData.
ReadTracked(c, ok) ==
  /\ cycle[c].pc = "reading"
  /\ cycle' = [cycle EXCEPT ![c].pc = "fetching",
                               ![c].prev = getTrackedPositions(ok),
                               ![c].newData = getNewPositions(NewTabHours, now, ok),
                               ![c].allData = getAllTrackedPositions(ok),
                               ![c].readAt = now,
                               ![c].batch = 1,
                               ![c].pending = BatchMembers(1)]
  /\ view' = [view EXCEPT !.trackedPositions = getTrackedPositions(ok)]
  /\ UNCHANGED <<now, addresses, recipients, tracked,
                 history, logs, priceCache, effectCache, isInitialLoad,
                 effectInitial, loading, started, lastWrite, fetches,
                 hiddenPositions, ui, forms, hiddenStore, inactiveEmails>>

Side(size) == IF size > 0 THEN "LONG" ELSE "SHORT"

\* positionStatus of a snapshot entry given the previouslyTracked list
Classify(prev, k, t) ==
  IF ~HasKey(prev, k) THEN "new"
  ELSE IF RowOf(prev, k).status = "new"
       THEN IF RowOf(prev, k).created_at > t - NewWindowHours * HourMs
            THEN "new" ELSE "active"
       ELSE "active"

\* a failed request answered from the last known positions of the address
SnapshotKeysOrTracked(prev, address, ok, szi) ==
  IF ok
  THEN {PositionKey(address, s) : s \in {x \in Assets : szi[x] # 0}}
  ELSE {p.position_key : p \in {q \in prev : q.address = address}}

\* the keys one clearinghouseState response contributes: its assetPositions
\* with a nonzero szi; nothing when the request failed
SnapshotKeys(prev, address, ok, szi) ==
  IF ok
  THEN {PositionKey(address, s) : s \in {x \in Assets : szi[x] # 0}}
  ELSE {}

\* the clearinghouseState request of one address of the current batch settles:
\* a 2xx response (szi per asset, 0 = no position) is parsed into
\* positionUpdates / newPositionNotifications, a non-2xx response or a thrown
\* error contributes nothing
FetchAddress(c, i, ok, szi) ==
  /\ cycle[c].pc = "fetching"
  /\ i \in cycle[c].pending
  /\    LET cy == cycle[c]
            a == addresses[i]
            ks == SnapshotKeys(cy.prev, a.address, ok, szi)
            ups == {[position_key |-> k, size |-> szi[k[2]],
                     side |-> Side(szi[k[2]]),
                     status |-> Classify(cy.prev, k, now)] : k \in ks}
            nts == {k \in ks : /\ ~HasKey(cy.prev, k)
                               /\ a.notifications_enabled}
            rest == cy.pending \ {i}
            more == cy.batch < NumBatches
        IN cycle' = [cycle EXCEPT
              ![c].currentKeys = cy.currentKeys \cup ks,
              ![c].updates = cy.updates \cup ups,
              ![c].notifs = cy.notifs \cup nts,
              ![c].failed = IF ok THEN cy.failed ELSE cy.failed \cup {i},
              ![c].answered = cy.answered \cup {i},
              ![c].unstored = cy.unstored \cup {k \in ks : ~HasKey(tracked, k)},
              ![c].pending = rest,
              ![c].pc = IF rest # {} THEN "fetching"
                        ELSE IF more THEN "delay" ELSE "ready"]
  /\ UNCHANGED <<now, addresses, recipients, tracked,
                 history, logs, priceCache, effectCache, isInitialLoad,
                 effectInitial, loading, started, lastWrite, fetches,
                 view, hiddenPositions, ui, forms, hiddenStore, inactiveEmails>>

\* Promise.all(batchPromises) resolved and a further batch remains: the
\* setTimeout(resolve, 100) between batches fires and the requests of the
\* next batch are issued together
BatchDelay(c) ==
  /\ cycle[c].pc = "delay"
  /\ cycle' = [cycle EXCEPT ![c].pc = "fetching",
                               ![c].batch = @ + 1,
                               ![c].delays = @ + 1,
                               ![c].pending = BatchMembers(cycle[c].batch + 1)]
  /\ UNCHANGED <<now, addresses, recipients, tracked,
                 history, logs, priceCache, effectCache, isInitialLoad,
                 effectInitial, loading, started, lastWrite, fetches,
                 view, hiddenPositions, ui, forms, hiddenStore, inactiveEmails>>

\* the freshness test with an inclusive bound
CacheFreshInclusive(cache, t) ==
  /\ t - MapGetOr(cache, TS, 0) <= CacheTtlMs
  /\ MapSize(cache) > 1

\* fetchCurrentPrices up to its first await: TRUE when the cache is served
CacheFresh(cache, t) ==
  /\ t - MapGetOr(cache, TS, 0) < CacheTtlMs
  /\ MapSize(cache) > 1

\* only the keys without a tracked record are upserted
UpsertKeysNewOnly(cy) ==
  {u.position_key : u \in {x \in cy.updates : ~HasKey(cy.prev, x.position_key)}}

\* positionUpdates.map(upsertTrackedPosition): one upsert per snapshot position
UpsertKeys(cy) == {u.position_key : u \in cy.updates}

\* after the last batch: fetchCurrentPrices, the queued notifications and the
\* queued upserts are all started
StartFanout(c) ==
  /\ cycle[c].pc = "ready"
  /\ LET cy == cycle[c]
         fresh == CacheFresh(cy.seenCache, now)
         ukeys == UpsertKeys(cy)
         okeys == {u.position_key : u \in cy.updates}
     IN cycle' = [cycle EXCEPT
           ![c].pc = "fanout",
           ![c].pricePc = IF fresh THEN "done" ELSE "inflight",
           ![c].priceAt = now,
           ![c].networkCall = ~fresh,
           ![c].currentPrices = IF fresh THEN cy.seenCache ELSE EmptyMap,
           ![c].upc = [k \in ukeys |-> "queued"],
           ![c].npc = cy.notifs,
           ![c].attempts = [k \in okeys |-> 0],
           ![c].attemptCount = [k \in okeys |-> 0],
           ![c].calls = [k \in okeys |-> 0],
           ![c].result = [k \in okeys |-> FALSE]]
  /\ UNCHANGED <<now, addresses, recipients, tracked,
                 history, logs, priceCache, effectCache, isInitialLoad,
                 effectInitial, loading, started, lastWrite, fetches,
                 view, hiddenPositions, ui, forms, hiddenStore, inactiveEmails>>

\* assetsToFetchPrices of a cycle
AssetsToFetch(cy) == {k[2] : k \in cy.currentKeys}

\* the map fetchCurrentPrices returns once the allMids request settled
PriceResult(outcome, mids, assets, cache, t) ==
  CASE outcome = "ok" ->
         [x \in assets \cup {TS} |-> IF x = TS THEN t ELSE mids[x]]
    [] outcome = "non2xx" -> EmptyMap
    [] outcome = "throw" -> IF MapSize(cache) > 1 THEN cache ELSE EmptyMap

PriceResponse(c, outcome, mids) ==
  /\ cycle[c].pc = "fanout"
  /\ cycle[c].pricePc = "inflight"
  /\ LET priceMap == PriceResult(outcome, mids, AssetsToFetch(cycle[c]),
                                 cycle[c].seenCache, now)
     IN /\ cycle' = [cycle EXCEPT ![c].pricePc = "done",
                                  ![c].priceOutcome = outcome,
                                  ![c].mids = IF outcome = "ok"
                                              THEN mids ELSE EmptyMap,
                                  ![c].currentPrices = priceMap]
        /\ fetches' = IF outcome = "ok"
                      THEN fetches \cup {[at |-> now, map |-> priceMap]}
                      ELSE fetches
  /\ UNCHANGED <<now, addresses, recipients, tracked,
                 history, logs, priceCache, effectCache, isInitialLoad,
                 effectInitial, loading, started, lastWrite,
                 view, hiddenPositions, ui, forms, hiddenStore, inactiveEmails>>

----------------------------------------------------------------------------
(* lib/database.ts *)

\* every row is inserted with notification_sent true
logNotificationAsSent(lg, k, size, sent, ok) ==
  IF ok THEN [lg EXCEPT ![<<k, size, TRUE>>] = @ + 1] ELSE lg

\* logNotification: one row inserted into notification_logs unless the insert
\* fails.  The row carries address and asset (the key), size and
\* notification_sent; side and entry_price travel with size.
logNotification(lg, k, size, sent, ok) ==
  IF ok THEN [lg EXCEPT ![<<k, size, sent>>] = @ + 1] ELSE lg

\* the transport is invoked whatever getNotificationEmails returned
TransportCalledAlways(emails) == TRUE

\* sendPositionNotification: the send-email function is invoked unless
\* getNotificationEmails returned no row
TransportCalled(emails) == emails # {}

UpdateOf(cy, k) == CHOOSE u \in cy.updates : u.position_key = k

\* sendPositionNotification as called by the poll cycle for a queued notification.
\* No recipient: returns false before the transport is called.  Otherwise the
\* send-email function is invoked once and the outcome is logged.
CycleNotify(c, k, outcome, logOk) ==
  /\ cycle[c].pc = "fanout"
  /\ k \in cycle[c].npc
  /\ IF ~TransportCalled(recipients)
     THEN /\ cycle' = [cycle EXCEPT ![c].npc = @ \ {k},
                                    ![c].calls[k] = @ + 1,
                                    ![c].result[k] = FALSE]
          /\ logs' = logs
     ELSE /\ cycle' = [cycle EXCEPT ![c].npc = @ \ {k},
                                    ![c].calls[k] = @ + 1,
                                    ![c].result[k] = (outcome = "sent"),
                                    ![c].attempts[k] = @ + 1]
          /\ logs' = logNotification(logs, k, UpdateOf(cycle[c], k).size,
                                     outcome = "sent", logOk)
  /\ UNCHANGED <<now, addresses, recipients, tracked,
                 history, priceCache, effectCache, isInitialLoad,
                 effectInitial, loading, started, lastWrite, fetches,
                 view, hiddenPositions, ui, forms, hiddenStore, inactiveEmails>>

\* upsertTrackedPosition: the select of the existing row settles.  A select
\* error other than "no rows" leaves existingPosition undefined as well.
UpsertCheck(c, k, ok) ==
  /\ cycle[c].pc = "fanout"
  /\ k \in DOMAIN cycle[c].upc
  /\ cycle[c].upc[k] = "queued"
  /\    LET isNewPosition == ~ok \/ ~HasKey(tracked, k)
        IN cycle' = [cycle EXCEPT
              ![c].upc[k] = "checked",
              ![c].isNew = IF isNewPosition THEN @ \cup {k} ELSE @]
  /\ UNCHANGED <<now, addresses, recipients, tracked,
                 history, logs, priceCache, effectCache, isInitialLoad,
                 effectInitial, loading, started, lastWrite, fetches,
                 view, hiddenPositions, ui, forms, hiddenStore, inactiveEmails>>

\* gen_random_uuid(): an id no row of the table has (rows are never deleted)
FreshId(rows, k) == <<k, Cardinality(RowsWithKey(rows, k)) + 1>>

\* an insert without the onConflict target: every call adds a row
UpsertRowInsertOnly(rows, u, t) ==
  rows \cup {[id |-> FreshId(rows, u.position_key),
              position_key |-> u.position_key, address |-> u.position_key[1],
              asset |-> u.position_key[2], size |-> u.size, side |-> u.side,
              status |-> u.status, is_active |-> (u.status # "closed"),
              created_at |-> t, closed_at |-> NoTime]}

\* supabase .upsert(row, {onConflict: "position_key"}): the row with that key is
\* updated in the columns given, else a row is inserted with the column defaults
UpsertRow(rows, u, t) ==
  LET k == u.position_key
      st == IF u.status = "" THEN "active" ELSE u.status
  IN IF HasKey(rows, k)
     THEN {IF r.position_key = k
           THEN [r EXCEPT !.size = u.size, !.side = u.side, !.status = st,
                          !.is_active = (u.status # "closed")]
           ELSE r : r \in rows}
     ELSE rows \cup {[id |-> FreshId(rows, k), position_key |-> k, address |-> k[1],
                      asset |-> k[2], size |-> u.size, side |-> u.side,
                      status |-> st, is_active |-> (u.status # "closed"),
                      created_at |-> t, closed_at |-> NoTime]}

\* upsertTrackedPosition: the upsert settles; on error null is returned
UpsertWrite(c, k, ok) ==
  /\ cycle[c].pc = "fanout"
  /\ k \in DOMAIN cycle[c].upc
  /\ cycle[c].upc[k] = "checked"
  /\    IF ok
        THEN /\ tracked' = UpsertRow(tracked, UpdateOf(cycle[c], k), now)
             /\ cycle' = [cycle EXCEPT
                   ![c].upc[k] = IF k \in cycle[c].isNew THEN "wallet" ELSE "done",
                   ![c].written = @ \cup {k}]
             /\ lastWrite' = [lastWrite EXCEPT ![k] =
                   LET u == UpdateOf(cycle[c], k)
                       same == /\ @.op = "upsert" /\ @.size = u.size
                               /\ @.status = u.status
                   IN [op |-> "upsert", size |-> u.size, status |-> u.status,
                       n |-> IF same THEN 2 ELSE 1]]
        ELSE /\ tracked' = tracked
             /\ lastWrite' = lastWrite
             /\ cycle' = [cycle EXCEPT ![c].upc[k] = "done",
                                       ![c].writeFailed = @ \cup {k}]
  /\ UNCHANGED <<now, addresses, recipients,
                 history, logs, priceCache, effectCache, isInitialLoad,
                 effectInitial, loading, started, fetches,
                 view, hiddenPositions, ui, forms, hiddenStore, inactiveEmails>>

\* a loop that retries until an email is sent
LoopContinuesUntilSent(emailSent, attemptCount) == ~emailSent

\* the loop condition: while (!emailSent && attemptCount < maxAttempts)
LoopContinues(emailSent, attemptCount) ==
  ~emailSent /\ attemptCount < maxAttempts

WalletOf(address) ==
  CHOOSE w \in {addresses[i] : i \in AddressIndex} : w.address = address

\* upsertTrackedPosition, new position: the wallet_addresses select settles.
\* walletInfo?.notifications_enabled !== false, so a failed select notifies.
UpsertWallet(c, k, ok) ==
  /\ cycle[c].pc = "fanout"
  /\ k \in DOMAIN cycle[c].upc
  /\ cycle[c].upc[k] = "wallet"
  /\    LET enabled == ~ok \/ WalletOf(k[1]).notifications_enabled
        IN cycle' = [cycle EXCEPT
              ![c].upc[k] = IF enabled /\ LoopContinues(FALSE, 0)
                            THEN "retry" ELSE "done"]
  /\ UNCHANGED <<now, addresses, recipients, tracked,
                 history, logs, priceCache, effectCache, isInitialLoad,
                 effectInitial, loading, started, lastWrite, fetches,
                 view, hiddenPositions, ui, forms, hiddenStore, inactiveEmails>>

\* upsertTrackedPosition, one iteration of the retry loop, with the failure
\* log that follows the loop when the last iteration leaves emailSent false.
\* upc[k] = "retry" is the loop condition having held at the top of the loop.
UpsertAttempt(c, k, outcome, logOk, failLogOk) ==
  /\ cycle[c].pc = "fanout"
  /\ k \in DOMAIN cycle[c].upc
  /\ cycle[c].upc[k] = "retry"
  /\    LET n == cycle[c].attemptCount[k] + 1
            size == UpdateOf(cycle[c], k).size
            called == TransportCalled(recipients)
            emailSent == called /\ outcome = "sent"
            over == ~LoopContinues(emailSent, n)
            lg1 == IF called
                   THEN logNotification(logs, k, size, emailSent, logOk) ELSE logs
            lg2 == IF over /\ ~emailSent
                   THEN logNotification(lg1, k, size, FALSE, failLogOk) ELSE lg1
        IN /\ logs' = lg2
           /\ cycle' = [cycle EXCEPT
                 ![c].attemptCount[k] = n,
                 ![c].upc[k] = IF over THEN "done" ELSE "retry",
                 ![c].calls[k] = @ + 1,
                 ![c].result[k] = emailSent,
                 ![c].attempts[k] = IF called THEN @ + 1 ELSE @]
  /\ UNCHANGED <<now, addresses, recipients, tracked,
                 history, priceCache, effectCache, isInitialLoad,
                 effectInitial, loading, started, lastWrite, fetches,
                 view, hiddenPositions, ui, forms, hiddenStore, inactiveEmails>>

----------------------------------------------------------------------------
(* fetchPositions, after the fan-out *)

\* positionsToClose
PositionsToClose(prev, currentKeys) ==
  {p \in prev : /\ p.position_key \notin currentKeys
                /\ p.status \in {"active", "new"}
                /\ p.is_active = TRUE}

\* a Position of the display lists.  status is not a field of Position: it is
\* the status of what the record was built from (the classification of a
\* snapshot entry, the stored status of a converted row)
DisplayPosition(k, price, status) ==
  [positionKey |-> k, currentPrice |-> price, status |-> status]

\* currentPrices.get(asset) || entryPrice
PriceOr(prices, asset, entryPrice) ==
  IF asset \in DOMAIN prices /\ prices[asset] # 0 THEN prices[asset] ELSE entryPrice

AddressRank == ("0xa1" :> 1) @@ ("0xa2" :> 2) @@ ("0xa3" :> 3) @@ ("0xa4" :> 4)

\* the keys of a set as a list.  allPositions is filled in the order in which
\* the requests of a batch settle; no two of its entries have the same key, so
\* the list is kept in the order of the addresses.
RECURSIVE ListByRank(_)
ListByRank(S) ==
  IF S = {} THEN <<>>
  ELSE LET k == CHOOSE x \in S : \A y \in S : AddressRank[x[1]] <= AddressRank[y[1]]
       IN <<k>> \o ListByRank(S \ {k})

\* .order(created_at | closed_at, {ascending: false})
RECURSIVE RowsDesc(_, _)
RowsDesc(rows, byClosedAt) ==
  IF rows = {} THEN <<>>
  ELSE LET at(r) == IF byClosedAt THEN r.closed_at ELSE r.created_at
           first == CHOOSE r \in rows : \A q \in rows :
                      \/ at(r) > at(q)
                      \/ /\ at(r) = at(q)
                         /\ AddressRank[r.address] <= AddressRank[q.address]
       IN <<first>> \o RowsDesc(rows \ {first}, byClosedAt)

\* positionsWithUSD: the snapshot positions with their current price
positionsWithUSD(cy) ==
  LET ks == ListByRank(cy.currentKeys)
  IN [i \in 1..Len(ks) |->
        DisplayPosition(ks[i], PriceOr(cy.currentPrices, ks[i][2], EntryPrice),
                        UpdateOf(cy, ks[i]).status)]

convertTrackedToDisplay(rowList, prices) ==
  [i \in 1..Len(rowList) |->
     DisplayPosition(rowList[i].position_key,
                     PriceOr(prices, rowList[i].asset, EntryPrice),
                     rowList[i].status)]

\* the lists a cycle publishes: setNewPositions, setClosedPositions,
\* setAllPositions, setPositions
Published(cy, old) ==
  LET closedData == {r \in cy.allData : r.status = "closed"}
      newPositionsFiltered == {r \in cy.newData : r.status = "new"}
      historicalPositions == {r \in cy.allData : r.status \in {"closed", "new"}}
  IN [old EXCEPT
        !.positions = positionsWithUSD(cy),
        !.newPositions =
           convertTrackedToDisplay(RowsDesc(newPositionsFiltered, FALSE),
                                   cy.currentPrices),
        !.closedPositions =
           convertTrackedToDisplay(RowsDesc(closedData, TRUE), cy.currentPrices),
        !.allPositions =
           positionsWithUSD(cy) \o
           convertTrackedToDisplay(RowsDesc(historicalPositions, FALSE),
                                   cy.currentPrices)]

\* a cycle whose closes have all settled keeps its locals until its slot is reused
Settle(cy) ==
  IF cy.pc = "closing" /\ \A k \in DOMAIN cy.cpc : cy.cpc[k] = "done"
  THEN [cy EXCEPT !.pc = "done"] ELSE cy

\* the fan-out Promise.all resolved: setPriceCache, positionsToClose is computed
\* and closeTrackedPosition is started for each (not awaited), the views are
\* published, loading is cleared; loadPositions then clears isInitialLoad
Finish(c) ==
  /\ cycle[c].pc = "fanout"
  /\ cycle[c].pricePc = "done"
  /\ cycle[c].npc = {}
  /\ \A k \in DOMAIN cycle[c].upc : cycle[c].upc[k] = "done"
  /\ LET cy == cycle[c]
         toClose == {p.position_key : p \in PositionsToClose(cy.prev, cy.currentKeys)}
     IN cycle' = [cycle EXCEPT ![c] =
           Settle([cy EXCEPT !.pc = "closing",
                             !.cpc = [k \in toClose |-> "queued"],
                             !.closeNow = now,
                             !.histBase = Len(history)])]
  /\ priceCache' = cycle[c].currentPrices
  /\ view' = Published(cycle[c], view)
  /\ loading' = FALSE
  /\ isInitialLoad' = IF cycle[c].kind = "effect" THEN FALSE ELSE isInitialLoad
  /\ UNCHANGED <<now, addresses, recipients, tracked,
                 history, logs, effectCache, effectInitial, started, lastWrite, fetches,
                 hiddenPositions, ui, forms, hiddenStore, inactiveEmails>>

\* currentPrices.get(trackedPos.asset) || trackedPos.entry_price
closePrice(cy, k) == PriceOr(cy.currentPrices, k[2], EntryPrice)

\* finalPnl = (currentPrice - trackedPos.entry_price) * trackedPos.size
finalPnl(cy, k) == (closePrice(cy, k) - EntryPrice) * RowOf(cy.prev, k).size

\* closeTrackedPosition: the select of the existing row settles
CloseRead(c, k, ok) ==
  /\ cycle[c].pc = "closing"
  /\ k \in DOMAIN cycle[c].cpc
  /\ cycle[c].cpc[k] = "queued"
  /\ cycle' = [cycle EXCEPT ![c] =
           IF ok /\ HasKey(tracked, k)
           THEN [cycle[c] EXCEPT !.cpc[k] = "read",
                                 !.closeRow = (k :> RowOf(tracked, k)) @@ @]
           ELSE Settle([cycle[c] EXCEPT !.cpc[k] = "done"])]
  /\ UNCHANGED <<now, addresses, recipients, tracked,
                 history, logs, priceCache, effectCache, isInitialLoad,
                 effectInitial, loading, started, lastWrite, fetches,
                 view, hiddenPositions, ui, forms, hiddenStore, inactiveEmails>>

\* the close update without the is_active column
CloseRowKeepsActive(rows, k, t) ==
  {IF r.position_key = k
   THEN [r EXCEPT !.status = "closed", !.closed_at = t]
   ELSE r : r \in rows}

\* the update of closeTrackedPosition applied to the rows with that key
CloseRow(rows, k, t) ==
  {IF r.position_key = k
   THEN [r EXCEPT !.status = "closed", !.closed_at = t, !.is_active = FALSE]
   ELSE r : r \in rows}

\* closeTrackedPosition: the update settles; on error null is returned
CloseUpdate(c, k, ok) ==
  /\ cycle[c].pc = "closing"
  /\ k \in DOMAIN cycle[c].cpc
  /\ cycle[c].cpc[k] = "read"
  /\    IF ok /\ HasKey(tracked, k)
        THEN /\ tracked' = CloseRow(tracked, k, cycle[c].closeNow)
             /\ lastWrite' = [lastWrite EXCEPT ![k] =
                   [op |-> "close", size |-> 0, status |-> "closed",
                    n |-> IF lastWrite[k].op = "close" THEN lastWrite[k].n + 1
                          ELSE 1]]
             /\ cycle' = [cycle EXCEPT ![c].cpc[k] = "updated"]
        ELSE /\ tracked' = tracked
             /\ lastWrite' = lastWrite
             /\ cycle' = [cycle EXCEPT ![c] = Settle([cycle[c] EXCEPT !.cpc[k] = "done"])]
  /\ UNCHANGED <<now, addresses, recipients,
                 history, logs, priceCache, effectCache, isInitialLoad,
                 effectInitial, loading, started, fetches,
                 view, hiddenPositions, ui, forms, hiddenStore, inactiveEmails>>

\* closeTrackedPosition: addToPositionHistory settles
CloseHistory(c, k, ok) ==
  /\ cycle[c].pc = "closing"
  /\ k \in DOMAIN cycle[c].cpc
  /\ cycle[c].cpc[k] = "updated"
  /\    /\ history' = IF ok
                      THEN Append(history,
                             [position_key |-> k,
                              size |-> cycle[c].closeRow[k].size,
                              side |-> cycle[c].closeRow[k].side,
                              opened_at |-> cycle[c].closeRow[k].created_at,
                              closed_at |-> cycle[c].closeNow,
                              exit_price |-> closePrice(cycle[c], k),
                              pnl |-> finalPnl(cycle[c], k),
                              status |-> "closed"])
                      ELSE history
        /\ cycle' = [cycle EXCEPT ![c] =
              Settle([cycle[c] EXCEPT !.cpc[k] = "done"])]
  /\ UNCHANGED <<now, addresses, recipients, tracked,
                 logs, priceCache, effectCache, isInitialLoad,
                 effectInitial, loading, started, lastWrite, fetches,
                 view, hiddenPositions, ui, forms, hiddenStore, inactiveEmails>>

----------------------------------------------------------------------------
(* Display: getFilteredPositions and the tab lists *)

\* trackedPositions.find(tp => tp.position_key === key)?.status || "active"
StatusIn(trackedPositions, k) ==
  IF HasKey(trackedPositions, k) THEN RowOf(trackedPositions, k).status ELSE "active"

IndexOfKey(list, k) ==
  IF \E i \in 1..Len(list) : list[i].positionKey = k
  THEN CHOOSE i \in 1..Len(list) :
         /\ list[i].positionKey = k
         /\ \A j \in 1..(i - 1) : list[j].positionKey # k
  ELSE 0

\* the reduce of getFilteredPositions: the list without duplicate keys
RECURSIVE uniquePositions(_, _)
uniquePositions(positionsList, trackedPositions) ==
  IF positionsList = <<>> THEN <<>>
  ELSE LET acc == uniquePositions(SubSeq(positionsList, 1, Len(positionsList) - 1),
                                  trackedPositions)
           position == positionsList[Len(positionsList)]
           existingIndex == IndexOfKey(acc, position.positionKey)
       IN IF existingIndex = 0 THEN Append(acc, position)
          ELSE LET existing == acc[existingIndex]
                   existingStatus == StatusIn(trackedPositions, existing.positionKey)
                   currentStatus == StatusIn(trackedPositions, position.positionKey)
                   replace ==
                     \/ currentStatus = "active" /\ existingStatus # "active"
                     \/ currentStatus = "new" /\ existingStatus = "closed"
                     \/ /\ currentStatus = existingStatus
                        /\ position.currentPrice > 0
                        /\ existing.currentPrice = 0
               IN IF replace THEN [acc EXCEPT ![existingIndex] = position] ELSE acc

\* getFilteredPositions with the asset and trader filters at "all"
getFilteredPositions(positionsList, includeHidden, showAllPositions) ==
  LET keep(position) ==
        LET isHidden == position.positionKey \in hiddenPositions
        IN \/ showAllPositions
           \/ (includeHidden /\ isHidden)
           \/ (~includeHidden /\ ~isHidden)
  IN SelectSeq(uniquePositions(positionsList, view.trackedPositions), keep)

visiblePositions == getFilteredPositions(view.positions, FALSE, FALSE)
hiddenPositionsList ==
  getFilteredPositions(view.positions \o view.newPositions \o view.closedPositions,
                       TRUE, FALSE)
filteredNewPositions == getFilteredPositions(view.newPositions, FALSE, FALSE)
filteredClosedPositions == getFilteredPositions(view.closedPositions, FALSE, FALSE)
filteredAllPositions == getFilteredPositions(view.allPositions, FALSE, TRUE)

KeysOf(list) == {list[i].positionKey : i \in 1..Len(list)}

\* the keys of the rows one of the tabs shows (each row has the eye button)
ShownKeys ==
  KeysOf(visiblePositions) \cup KeysOf(hiddenPositionsList)
    \cup KeysOf(filteredNewPositions) \cup KeysOf(filteredClosedPositions)
    \cup KeysOf(filteredAllPositions)

\* the hidden_positions table as loaded on mount, no toggle pending
EmptyHiddenStore == [rows |-> {}, pending |-> {}]

\* toggleHidePosition on a row of one of the tabs: the hidden_positions row is
\* added or removed, and the set is updated when the store call succeeded
toggleHidePosition(k, ok) ==
  /\ k \in ShownKeys
  /\ hiddenStore.pending = {}
  /\ ok
  /\ hiddenPositions' = IF k \in hiddenPositions
                        THEN hiddenPositions \ {k}
                        ELSE hiddenPositions \cup {k}
  /\ hiddenStore' = [hiddenStore EXCEPT !.rows = IF k \in hiddenPositions
                                                 THEN @ \ {k} ELSE @ \cup {k}]
  /\ UNCHANGED <<now, addresses, recipients, tracked, history, logs, priceCache,
                 effectCache, isInitialLoad, effectInitial, loading, started,
                 lastWrite, fetches, cycle, view, ui, forms, inactiveEmails>>

\* toggleHidePosition up to its await: isCurrentlyHidden is read and the store
\* call is issued; the closure keeps the hiddenPositions of this render
toggleHidePositionCall(k) ==
  /\ k \in ShownKeys
  /\ \A call \in hiddenStore.pending : call.positionKey # k
  /\ hiddenStore' = [hiddenStore EXCEPT !.pending = @ \cup
        {[positionKey |-> k, isCurrentlyHidden |-> k \in hiddenPositions,
          hiddenPositions |-> hiddenPositions]}]
  /\ UNCHANGED <<now, addresses, recipients, tracked, history, logs, priceCache,
                 effectCache, isInitialLoad, effectInitial, loading, started,
                 lastWrite, fetches, cycle, view, hiddenPositions, ui, forms, inactiveEmails>>

\* addHiddenPosition: an insert, refused when the key has a row already
\* (position_key is UNIQUE); removeHiddenPosition: a delete, succeeding
\* whether or not a row matched
HiddenCallSucceeds(call, rows, ok) ==
  ok /\ (call.isCurrentlyHidden \/ call.positionKey \notin rows)

\* the store call of a pending toggle settles: on success the set is rebuilt
\* from the hiddenPositions the closure captured
toggleHidePositionSettles(call, ok) ==
  /\ call \in hiddenStore.pending
  /\ LET success == HiddenCallSucceeds(call, hiddenStore.rows, ok)
         k == call.positionKey
     IN /\ hiddenStore' =
             [pending |-> hiddenStore.pending \ {call},
              rows |-> IF ~success THEN hiddenStore.rows
                       ELSE IF call.isCurrentlyHidden THEN hiddenStore.rows \ {k}
                       ELSE hiddenStore.rows \cup {k}]
        /\ hiddenPositions' =
             IF ~success THEN hiddenPositions
             ELSE IF call.isCurrentlyHidden THEN call.hiddenPositions \ {k}
             ELSE call.hiddenPositions \cup {k}
  /\ UNCHANGED <<now, addresses, recipients, tracked, history, logs, priceCache,
                 effectCache, isInitialLoad, effectInitial, loading, started,
                 lastWrite, fetches, cycle, view, ui, forms, inactiveEmails>>

----------------------------------------------------------------------------
(* Notification recipients *)

Tabs == {"active", "new", "closed", "hidden", "all"}

\* the columns the model sorts by: the address column and the two synthetic keys
SortKeys == {<<"address", "none">>, <<"none", "status">>, <<"none", "duration">>}

\* handleSort: the same field again flips asc to desc, anything else is asc
handleSort(key, customSort) ==
  /\ LET prevConfig == ui.sortConfig
         isSameField == IF customSort # "none"
                        THEN prevConfig.customSort = customSort
                        ELSE prevConfig.key = key
     IN ui' = [ui EXCEPT !.sortConfig =
                 [key |-> IF customSort # "none" THEN "none" ELSE key,
                  customSort |-> customSort,
                  direction |-> IF isSameField /\ prevConfig.direction = "asc"
                                THEN "desc" ELSE "asc"]]
  /\ UNCHANGED <<now, addresses, recipients, tracked, history, logs, priceCache,
                 effectCache, isInitialLoad, effectInitial, loading, started,
                 lastWrite, fetches, cycle, view, hiddenPositions, forms, hiddenStore, inactiveEmails>>

\* getStatusPriority: the status is looked up in trackedPositions, "active"
\* when the key has no row there; new 3, active 2, anything else 1
getStatusPriority(position, trackedPositions) ==
  LET status == StatusIn(trackedPositions, position.positionKey)
  IN CASE status = "new" -> 3
       [] status = "active" -> 2
       [] OTHER -> 1

\* created_at of the key's row in trackedPositions, 0 without a row
CreatedAtIn(trackedPositions, k) ==
  IF HasKey(trackedPositions, k) THEN RowOf(trackedPositions, k).created_at ELSE 0

\* the comparator of sortPositions: negative when a sorts before b
Compare(a, b, trackedPositions, cfg) ==
  CASE cfg.customSort = "duration" ->
         LET comparison == CreatedAtIn(trackedPositions, a.positionKey)
                           - CreatedAtIn(trackedPositions, b.positionKey)
         IN IF cfg.direction = "desc" THEN comparison ELSE 0 - comparison
    [] cfg.customSort = "status" ->
         LET comparison == getStatusPriority(a, trackedPositions)
                           - getStatusPriority(b, trackedPositions)
         IN IF cfg.direction = "desc" THEN 0 - comparison ELSE comparison
    [] cfg.key = "address" ->
         LET comparison == AddressRank[a.positionKey[1]] - AddressRank[b.positionKey[1]]
         IN IF cfg.direction = "desc" THEN 0 - comparison ELSE comparison
    [] OTHER -> 0

\* x placed into a sorted list behind every element that does not sort after it
RECURSIVE InsertSorted(_, _, _, _)
InsertSorted(sorted, x, trackedPositions, cfg) ==
  IF sorted = <<>> THEN <<x>>
  ELSE LET last == sorted[Len(sorted)]
       IN IF Compare(last, x, trackedPositions, cfg) <= 0
          THEN Append(sorted, x)
          ELSE Append(InsertSorted(SubSeq(sorted, 1, Len(sorted) - 1), x,
                                   trackedPositions, cfg), last)

\* sortPositions: [...positionsList].sort(comparator), a stable sort; the
\* list as it is when no column is selected
RECURSIVE sortPositions(_, _, _)
sortPositions(positionsList, trackedPositions, cfg) ==
  IF cfg.key = "none" /\ cfg.customSort = "none" THEN positionsList
  ELSE IF positionsList = <<>> THEN <<>>
  ELSE InsertSorted(sortPositions(SubSeq(positionsList, 1, Len(positionsList) - 1),
                                  trackedPositions, cfg),
                    positionsList[Len(positionsList)], trackedPositions, cfg)

\* every tab is set to the page
PagesAll(pages, tab, page) == [t \in Tabs |-> page]

\* setTabPagination(prev => ({...prev, [activeTab]: page}))
PagesWith(pages, tab, page) == [pages EXCEPT ![tab] = page]

\* setCurrentPageForTab, from the pagination buttons
setCurrentPageForTab(page) ==
  /\ ui' = [ui EXCEPT !.tabPagination = PagesWith(@, ui.activeTab, page)]
  /\ UNCHANGED <<now, addresses, recipients, tracked, history, logs, priceCache,
                 effectCache, isInitialLoad, effectInitial, loading, started,
                 lastWrite, fetches, cycle, view, hiddenPositions, forms, hiddenStore, inactiveEmails>>

\* const [itemsPerPage] = useState<number>(10)
itemsPerPage == 10

\* Math.ceil(totalItems / itemsPerPage)
getTotalPages(totalItems) == (totalItems + itemsPerPage - 1) \div itemsPerPage

\* positionsList.slice(startIndex, endIndex)
getPaginatedPositions(positionsList, page) ==
  LET startIndex == (page - 1) * itemsPerPage
      endIndex == startIndex + itemsPerPage
  IN SubSeq(positionsList, startIndex + 1,
            IF endIndex < Len(positionsList) THEN endIndex ELSE Len(positionsList))

\* the list each TabsContent hands to renderPositionTable
TabList(tab) ==
  CASE tab = "active" -> visiblePositions
    [] tab = "new" -> filteredNewPositions
    [] tab = "closed" -> filteredClosedPositions
    [] tab = "hidden" -> hiddenPositionsList
    [] tab = "all" -> filteredAllPositions

\* the pagination controls of the tab shown, rendered when totalPages > 1:
\* previous (Math.max(1, currentPage - 1)), the page numbers, next
\* (Math.min(totalPages, currentPage + 1))
PaginationClick(page) ==
  LET totalPages == getTotalPages(Len(TabList(ui.activeTab)))
      currentPage == ui.tabPagination[ui.activeTab]
  IN /\ totalPages > 1
     /\ \/ page \in 1..totalPages
        \/ page = (IF currentPage > 1 THEN currentPage - 1 ELSE 1)
     /\ setCurrentPageForTab(page)

\* the Tabs component: onValueChange={setActiveTab}
setActiveTab(tab) ==
  /\ ui' = [ui EXCEPT !.activeTab = tab]
  /\ UNCHANGED <<now, addresses, recipients, tracked, history, logs, priceCache,
                 effectCache, isInitialLoad, effectInitial, loading, started,
                 lastWrite, fetches, cycle, view, hiddenPositions, forms, hiddenStore, inactiveEmails>>

\* a filter setter followed by the effect on [selectedCrypto, selectedTrader,
\* cryptoFilter, traderFilter]: the effect runs when a dependency changed and
\* sets every tab's page to 1
WithFilter(u, field, value) ==
  IF u[field] = value THEN u
  ELSE [u EXCEPT ![field] = value, !.tabPagination = [t \in Tabs |-> 1]]

Filters == {"selectedCrypto", "selectedTrader", "cryptoFilter", "traderFilter"}

FilterValues ==
  [selectedCrypto |-> {"all", "BTC"}, selectedTrader |-> {"all", "0xa1"},
   cryptoFilter |-> {"", "btc"}, traderFilter |-> {"", "0xa1"}]

setFilter(field, value) ==
  /\ ui' = WithFilter(ui, field, value)
  /\ UNCHANGED <<now, addresses, recipients, tracked, history, logs, priceCache,
                 effectCache, isInitialLoad, effectInitial, loading, started,
                 lastWrite, fetches, cycle, view, hiddenPositions, forms, hiddenStore, inactiveEmails>>

\* handleSearchTrader: the search-trader event of AddressManagement
handleSearchTrader(address) ==
  /\ ui' = [WithFilter(WithFilter(ui, "traderFilter", address),
                       "selectedTrader", "all")
              EXCEPT !.activeTab = "active"]
  /\ UNCHANGED <<now, addresses, recipients, tracked, history, logs, priceCache,
                 effectCache, isInitialLoad, effectInitial, loading, started,
                 lastWrite, fetches, cycle, view, hiddenPositions, forms, hiddenStore, inactiveEmails>>

\* the insert of addNotificationEmail is accepted: the store answers and no
\* row, active or not, holds the address (email is UNIQUE)
InsertEmailSucceeds(email, ok) ==
  ok /\ email \notin recipients \cup inactiveEmails

\* addNotificationEmail: a row of notification_emails is inserted
addNotificationEmail(email, ok) ==
  /\ InsertEmailSucceeds(email, ok)
  /\ recipients' = recipients \cup {email}
  /\ UNCHANGED <<now, addresses, tracked, history, logs, priceCache,
                 effectCache, isInitialLoad, effectInitial, loading, started,
                 lastWrite, fetches, cycle, view, hiddenPositions, ui, forms, hiddenStore, inactiveEmails>>

\* removeNotificationEmail: the row is set inactive
removeNotificationEmail(email, ok) ==
  /\ email \in recipients
  /\ ok
  /\ recipients' = recipients \ {email}
  /\ inactiveEmails' = inactiveEmails \cup {email}
  /\ UNCHANGED <<now, addresses, tracked, history, logs, priceCache,
                 effectCache, isInitialLoad, effectInitial, loading, started,
                 lastWrite, fetches, cycle, view, hiddenPositions, ui, forms,
                 hiddenStore>>

----------------------------------------------------------------------------
(* AddressManagement, SettingsPage and Home: the add-address, add-email and  *)
(* bulk-add forms.  Text is a sequence of characters.                       *)

IsSpace(ch) == ch \in {" ", "\n"}

\* String.prototype.trim
RECURSIVE trim(_)
trim(text) ==
  IF text = <<>> THEN text
  ELSE IF IsSpace(Head(text)) THEN trim(Tail(text))
  ELSE IF IsSpace(text[Len(text)]) THEN trim(SubSeq(text, 1, Len(text) - 1))
  ELSE text

\* /^[^\s@]+@[^\s@]+\.[^\s@]+$/.test(email): no white space, one @ with
\* something before it, and behind it a dot that is neither first nor last
validateEmail(email) ==
  /\ \A i \in 1..Len(email) : ~IsSpace(email[i])
  /\ \E a \in 2..Len(email) :
       /\ email[a] = "@"
       /\ \A i \in 1..Len(email) : email[i] = "@" => i = a
       /\ \E d \in (a + 2)..(Len(email) - 1) : email[d] = "."

\* bulkEmails.split(/[\n,;]/)
RECURSIVE split(_, _)
split(text, piece) ==
  IF text = <<>> THEN <<piece>>
  ELSE IF Head(text) \in {"\n", ",", ";"}
       THEN <<piece>> \o split(Tail(text), <<>>)
       ELSE split(Tail(text), Append(piece, Head(text)))

IsFilled(email) == Len(email) > 0

\* .map(email => email.trim()).filter(email => email.length > 0)
emailList(text) ==
  LET pieces == split(text, <<>>)
  IN SelectSeq([i \in 1..Len(pieces) |-> trim(pieces[i])], IsFilled)

\* no address is refused for its length
TooShortNever(address) == FALSE

\* newAddress.trim().length < 10
TooShort(address) == Len(address) < 10

HasAddress(list, address) == \E i \in 1..Len(list) : list[i].address = address

\* useState initial values of the two components, with the home page shown.
\* lastAction, wrote and tick record the last submit handler that ran and
\* whether it issued a store write.
InitialForms ==
  [page |-> "home", newAddress |-> <<>>, error |-> "none",
   newEmail |-> <<>>, bulkEmails |-> <<>>, emailError |-> "none",
   emails |-> {},
   lastAction |-> "none", wrote |-> FALSE, tick |-> FALSE]

\* SettingsPage once its mount effect has loaded the email list (its forms
\* are not rendered before); a failed read leaves the list empty
LoadedForms(stored, ok) ==
  [InitialForms EXCEPT !.page = "settings", !.emails = IF ok THEN stored ELSE {}]

\* the settings page is opened: Home unmounts, SettingsPage mounts and loads
openSettings(ok) ==
  /\ forms.page = "home"
  /\ forms' = LoadedForms(recipients, ok)
  /\ UNCHANGED <<now, addresses, recipients, tracked, history, logs, priceCache,
                 effectCache, isInitialLoad, effectInitial, loading, started,
                 lastWrite, fetches, cycle, view, hiddenPositions, ui, hiddenStore, inactiveEmails>>

\* back to the home page: SettingsPage unmounts
handleBack ==
  /\ forms.page = "settings"
  /\ forms' = InitialForms
  /\ UNCHANGED <<now, addresses, recipients, tracked, history, logs, priceCache,
                 effectCache, isInitialLoad, effectInitial, loading, started,
                 lastWrite, fetches, cycle, view, hiddenPositions, ui, hiddenStore, inactiveEmails>>

\* the onChange handlers of the three text fields
setNewAddress(text) ==
  /\ forms.page = "home"
  /\ forms' = [forms EXCEPT !.newAddress = text]
  /\ UNCHANGED <<now, addresses, recipients, tracked, history, logs, priceCache,
                 effectCache, isInitialLoad, effectInitial, loading, started,
                 lastWrite, fetches, cycle, view, hiddenPositions, ui, hiddenStore, inactiveEmails>>

setNewEmail(text) ==
  /\ forms.page = "settings"
  /\ forms' = [forms EXCEPT !.newEmail = text]
  /\ UNCHANGED <<now, addresses, recipients, tracked, history, logs, priceCache,
                 effectCache, isInitialLoad, effectInitial, loading, started,
                 lastWrite, fetches, cycle, view, hiddenPositions, ui, hiddenStore, inactiveEmails>>

setBulkEmails(text) ==
  /\ forms.page = "settings"
  /\ forms' = [forms EXCEPT !.bulkEmails = text]
  /\ UNCHANGED <<now, addresses, recipients, tracked, history, logs, priceCache,
                 effectCache, isInitialLoad, effectInitial, loading, started,
                 lastWrite, fetches, cycle, view, hiddenPositions, ui, hiddenStore, inactiveEmails>>

\* AddressManagement.handleAddAddress, with home.handleAddAddress and
\* addWalletAddress behind onAddAddress (not awaited: the form is cleared
\* whatever the insert does)
handleAddAddress(ok) ==
  LET address == trim(forms.newAddress)
      done == [forms EXCEPT !.lastAction = "addAddress", !.tick = ~@]
      refuse(message) ==
        /\ forms' = [done EXCEPT !.error = message, !.wrote = FALSE]
        /\ addresses' = addresses
  IN /\ forms.page = "home"
     /\ IF address = <<>> THEN refuse("Please enter a valid address")
        ELSE IF HasAddress(addresses, address) THEN refuse("Address already exists")
        ELSE IF TooShort(address) THEN refuse("Address appears to be invalid")
        ELSE /\ forms' = [done EXCEPT !.newAddress = <<>>, !.error = "none",
                                      !.wrote = TRUE]
             /\ addresses' = IF ok THEN Append(addresses, Wallet(address, TRUE))
                             ELSE addresses
     /\ UNCHANGED <<now, recipients, tracked, history, logs, priceCache,
                    effectCache, isInitialLoad, effectInitial, loading, started,
                    lastWrite, fetches, cycle, view, hiddenPositions, ui, hiddenStore, inactiveEmails>>

\* SettingsPage.handleAddEmail, with addNotificationEmail (an insert)
handleAddEmail(ok) ==
  LET email == trim(forms.newEmail)
      done == [forms EXCEPT !.lastAction = "addEmail", !.tick = ~@]
      refuse(message) ==
        /\ forms' = [done EXCEPT !.emailError = message, !.wrote = FALSE]
        /\ recipients' = recipients
  IN /\ forms.page = "settings"
     /\ IF email = <<>> THEN refuse("Please enter a valid email address")
        ELSE IF ~validateEmail(email) THEN refuse("Please enter a valid email format")
        ELSE IF email \in forms.emails THEN refuse("Email already exists")
        ELSE IF InsertEmailSucceeds(email, ok)
        THEN /\ forms' = [done EXCEPT !.emails = @ \cup {email}, !.newEmail = <<>>,
                                      !.emailError = "none", !.wrote = TRUE]
             /\ recipients' = recipients \cup {email}
        ELSE /\ forms' = [done EXCEPT !.emailError = "Failed to add email",
                                      !.wrote = TRUE]
             /\ recipients' = recipients
     /\ UNCHANGED <<now, addresses, tracked, history, logs, priceCache,
                    effectCache, isInitialLoad, effectInitial, loading, started,
                    lastWrite, fetches, cycle, view, hiddenPositions, ui, hiddenStore, inactiveEmails>>

\* SettingsPage.confirmRemove, with removeNotificationEmail (an update that
\* sets is_active false)
confirmRemove(email, ok) ==
  /\ forms.page = "settings"
  /\ email \in forms.emails
  /\ recipients' = IF ok THEN recipients \ {email} ELSE recipients
  /\ inactiveEmails' = IF ok THEN inactiveEmails \cup ({email} \cap recipients)
                       ELSE inactiveEmails
  /\ forms' = IF ok
              THEN [forms EXCEPT !.emails = @ \ {email}, !.lastAction = "remove"]
              ELSE [forms EXCEPT !.emailError = "Failed to remove email",
                                 !.lastAction = "remove"]
  /\ UNCHANGED <<now, addresses, tracked, history, logs, priceCache,
                 effectCache, isInitialLoad, effectInitial, loading, started,
                 lastWrite, fetches, cycle, view, hiddenPositions, ui, hiddenStore>>

\* SettingsPage.handleBulkAdd; accepted is the set of list positions whose
\* insert succeeds
handleBulkAdd(accepted) ==
  LET list == emailList(forms.bulkEmails)
      done == [forms EXCEPT !.lastAction = "bulkAdd", !.tick = ~@]
      refuse(message) ==
        /\ forms' = [done EXCEPT !.emailError = message, !.wrote = FALSE]
        /\ recipients' = recipients
      addedEmails == {list[i] : i \in {j \in accepted \cap (1..Len(list)) :
                                          InsertEmailSucceeds(list[j], TRUE)}}
  IN /\ forms.page = "settings"
     /\ IF trim(forms.bulkEmails) = <<>> THEN refuse("Please enter email addresses")
        ELSE IF Len(list) = 0 THEN refuse("No valid emails found")
        ELSE IF \E i \in 1..Len(list) : ~validateEmail(list[i])
        THEN refuse("Invalid email format")
        ELSE IF \E i \in 1..Len(list) : list[i] \in forms.emails
        THEN refuse("Email(s) already exist")
        ELSE /\ recipients' = recipients \cup addedEmails
             /\ forms' = IF addedEmails # {}
                         THEN [done EXCEPT !.emails = @ \cup addedEmails,
                                           !.bulkEmails = <<>>,
                                           !.emailError = "none", !.wrote = TRUE]
                         ELSE [done EXCEPT !.emailError = "Failed to add emails",
                                           !.wrote = TRUE]
     /\ UNCHANGED <<now, addresses, tracked, history, logs, priceCache,
                    effectCache, isInitialLoad, effectInitial, loading, started,
                    lastWrite, fetches, cycle, view, hiddenPositions, ui, hiddenStore, inactiveEmails>>

----------------------------------------------------------------------------
(* Specifications *)

\* useState initial values of sortConfig, tabPagination, activeTab,
\* selectedCrypto, selectedTrader, cryptoFilter and traderFilter
InitialUi ==
  [sortConfig |-> [key |-> "none", direction |-> "asc", customSort |-> "none"],
   tabPagination |-> [t \in Tabs |-> 1],
   activeTab |-> "active",
   selectedCrypto |-> "all", selectedTrader |-> "all",
   cryptoFilter |-> "", traderFilter |-> ""]

EmptyView ==
  [trackedPositions |-> {}, positions |-> <<>>, newPositions |-> <<>>,
   closedPositions |-> <<>>, allPositions |-> <<>>]

InitState(wallets) ==
  /\ now = 0
  /\ addresses = wallets
  /\ recipients = {"ops@example.com"}
  /\ tracked = {}
  /\ history = <<>>
  /\ logs = [x \in LogKeys |-> 0]
  /\ priceCache = EmptyMap
  /\ effectCache = EmptyMap
  /\ isInitialLoad = TRUE
  /\ effectInitial = TRUE
  /\ loading = TRUE
  /\ started = 0
  /\ lastWrite = [k \in Keys |-> NoWrite]
  /\ fetches = {}
  /\ cycle = [c \in CycleIds |-> IdleCycle]
  /\ hiddenPositions = {}
  /\ ui = InitialUi
  /\ forms = InitialForms
  /\ hiddenStore = EmptyHiddenStore
  /\ inactiveEmails = {}

InitWith(wallets) == InitState(wallets) /\ view = EmptyView

StartKinds == {"effect", "timer", "refresh"}
SendOutcomes == {"sent", "error", "throw"}
PriceOutcomes == {"ok", "non2xx", "throw"}

\* one step of a poll cycle in one of the slots, with the outcomes of the
\* store calls, snapshot requests, price request and transport drawn from the
\* given sets
Start(slots, kinds) ==
  \E c \in slots, kind \in kinds : StartCycle(c, kind)

\* scheduling of the calls a cycle has in flight at once: any order, or (for
\* the larger wallet lists) in the order of the address list.  The calls of one
\* cycle touch the rows of different keys, so the order changes no final state.
AnyOrder(c, k) == TRUE

AddressOrder(c, k) ==
  LET before(S) == \A j \in S : IndexOfAddress(j[1]) >= IndexOfAddress(k[1])
  IN /\ before({j \in DOMAIN cycle[c].upc : cycle[c].upc[j] # "done"})
     /\ before({j \in DOMAIN cycle[c].cpc : cycle[c].cpc[j] # "done"})
     /\ before(cycle[c].npc)

Reconcile(slots, storeOk, fetchOk, sziValues, Sched(_, _)) ==
  \/ \E c \in slots, ok \in storeOk : ReadTracked(c, ok)
  \/ \E c \in slots, i \in AddressIndex, ok \in fetchOk, szi \in [Assets -> sziValues] :
        FetchAddress(c, i, ok, szi)
  \/ \E c \in slots : StartFanout(c)
  \/ \E c \in slots, k \in WalletKeys, ok \in storeOk : Sched(c, k) /\ UpsertCheck(c, k, ok)
  \/ \E c \in slots, k \in WalletKeys, ok \in storeOk : Sched(c, k) /\ UpsertWrite(c, k, ok)
  \/ \E c \in slots : Finish(c)
  \/ \E c \in slots, k \in WalletKeys, ok \in storeOk : Sched(c, k) /\ CloseRead(c, k, ok)
  \/ \E c \in slots, k \in WalletKeys, ok \in storeOk : Sched(c, k) /\ CloseUpdate(c, k, ok)
  \/ \E c \in slots, k \in WalletKeys, ok \in storeOk : Sched(c, k) /\ CloseHistory(c, k, ok)

Notify(slots, storeOk, sendOut, Sched(_, _)) ==
  \/ \E c \in slots, k \in WalletKeys, o \in sendOut, ok \in storeOk :
        Sched(c, k) /\ CycleNotify(c, k, o, ok)
  \/ \E c \in slots, k \in WalletKeys, ok \in storeOk : Sched(c, k) /\ UpsertWallet(c, k, ok)
  \/ \E c \in slots, k \in WalletKeys, o \in sendOut, ok \in storeOk, fok \in storeOk :
        Sched(c, k) /\ UpsertAttempt(c, k, o, ok, fok)

\* the timer between two batches of a cycle fires
Delay(slots) == \E c \in slots : BatchDelay(c)

Prices(slots, priceOut, midValues) ==
  \E c \in slots, o \in priceOut, mids \in [Assets -> midValues] :
     PriceResponse(c, o, mids)

Init == InitWith(TwoWallets)

\* Spec: poll cycles one after the other over two wallets; every store call
\* and every snapshot request may fail; positions are long (short ones are
\* part of SpecReliable)
Next ==
  \/ TickDay
  \/ Start({1}, {"effect"})
  \/ Reconcile({1}, BOOLEAN, BOOLEAN, {0, 2}, AnyOrder)
  \/ Notify({1}, {TRUE}, {"sent"}, AnyOrder)
  \/ Prices({1}, {"ok"}, {50})

Spec == Init /\ [][Next]_vars

\* SpecReliable: as Spec, with a store whose calls all succeed
NextReliable ==
  \/ TickDay
  \/ Start({1}, {"effect"})
  \/ Reconcile({1}, {TRUE}, BOOLEAN, Szis, AnyOrder)
  \/ Notify({1}, {TRUE}, {"sent"}, AnyOrder)
  \/ Prices({1}, {"ok"}, {50})

SpecReliable == Init /\ [][NextReliable]_vars

\* SpecClosure: three wallets, a store whose calls all succeed, snapshot
\* requests that are all answered, one position size
NextClosure ==
  \/ TickDay
  \/ Start({1}, {"effect"})
  \/ Reconcile({1}, {TRUE}, {TRUE}, {0, 2}, AddressOrder)
  \/ Notify({1}, {TRUE}, {"sent"}, AddressOrder)
  \/ Prices({1}, {"ok"}, {50})

SpecClosure == InitWith(ThreeWallets) /\ [][NextClosure]_vars

\* SpecBatch: four wallets, hence two batches of snapshot requests per cycle;
\* a store whose calls all succeed
NextBatch ==
  \/ Start({1}, {"effect"})
  \/ Delay({1})
  \/ Reconcile({1}, {TRUE}, {TRUE}, {0, 2}, AddressOrder)
  \/ Notify({1}, {TRUE}, {"sent"}, AddressOrder)
  \/ Prices({1}, {"ok"}, {50})

SpecBatch == InitWith(FourWallets) /\ [][NextBatch]_vars

\* SpecPrice: one wallet, cycles started by the effect, the timer or the
\* refresh button; the clock advances in steps of ten seconds and the allMids
\* request may fail (the prices it returns vary in SpecDisplay)
NextPrice ==
  \/ TickStep
  \/ Start({1}, StartKinds)
  \/ Reconcile({1}, {TRUE}, {TRUE}, {0, 2}, AnyOrder)
  \/ Notify({1}, {TRUE}, {"sent"}, AnyOrder)
  \/ Prices({1}, PriceOutcomes, {50})

SpecPrice == InitWith(OneWallet) /\ [][NextPrice]_vars

\* SpecDisplay: one wallet, a store whose calls all succeed, hours passing
\* between the polls, prices that change, and the user hiding and showing
\* positions
NextDisplay ==
  \/ TickHour
  \/ Start({1}, {"effect"})
  \/ Reconcile({1}, {TRUE}, {TRUE}, {0, 2}, AnyOrder)
  \/ Notify({1}, {TRUE}, {"sent"}, AnyOrder)
  \/ Prices({1}, {"ok"}, Mids)
  \/ \E k \in WalletKeys : toggleHidePosition(k, TRUE)

SpecDisplay == InitWith(OneWallet) /\ [][NextDisplay]_vars

\* SpecNotify: one wallet with notifications enabled, a store whose calls all
\* succeed, a transport that accepts, answers with an error or throws, and a
\* recipient list that is emptied and refilled with another address
NextNotify ==
  \/ Start({1}, {"effect"})
  \/ Reconcile({1}, {TRUE}, {TRUE}, {0, 2}, AnyOrder)
  \/ Notify({1}, {TRUE}, SendOutcomes, AnyOrder)
  \/ Prices({1}, {"ok"}, {50})
  \/ addNotificationEmail("dev@example.com", TRUE)
  \/ \E email \in recipients : removeNotificationEmail(email, TRUE)

SpecNotify == InitWith(OneWallet) /\ [][NextNotify]_vars

\* SpecStoreFail: two wallets whose snapshot requests are all answered and a
\* store whose upsert into tracked_positions may fail while its other calls
\* succeed.  Every settled promise has its continuation run by the event
\* loop, and the timer keeps starting polls.
NextStoreFail ==
  \/ Start({1}, {"effect"})
  \/ \E k \in WalletKeys : AnyOrder(1, k) /\ UpsertWrite(1, k, FALSE)
  \/ Reconcile({1}, {TRUE}, {TRUE}, {0, 2}, AnyOrder)
  \/ Notify({1}, {TRUE}, {"sent"}, AnyOrder)
  \/ Prices({1}, {"ok"}, {50})

SpecStoreFail ==
  InitWith(TwoWallets) /\ [][NextStoreFail]_vars /\ WF_vars(NextStoreFail)

\* the addresses whose snapshot request may fail: one of each batch
Unreliable == {2, 4}

\* SpecFailures: four wallets, hence two batches; the snapshot requests of one
\* address of each batch may fail and every answered request reports an open
\* position; a store whose calls all succeed.  Every settled promise has its
\* continuation run by the event loop, and the timer keeps starting polls.
NextFailures ==
  \/ Start({1}, {"effect"})
  \/ \E i \in Unreliable : FetchAddress(1, i, FALSE, [s \in Assets |-> 0])
  \/ Delay({1})
  \/ Reconcile({1}, {TRUE}, {TRUE}, {2}, AddressOrder)
  \/ Notify({1}, {TRUE}, {"sent"}, AddressOrder)
  \/ Prices({1}, {"ok"}, {50})

SpecFailures ==
  InitWith(FourWallets) /\ [][NextFailures]_vars /\ WF_vars(NextFailures)

\* the page is closed or reloaded while cycle c awaits its store writes: the
\* component state is lost and rebuilt from its initial values, the store
\* keeps what was committed
Interrupt(c) ==
  /\ cycle[c].pc \in {"fanout", "closing"}
  /\ cycle' = [cycle EXCEPT ![c] = IdleCycle]
  /\ priceCache' = EmptyMap
  /\ effectCache' = EmptyMap
  /\ isInitialLoad' = TRUE
  /\ effectInitial' = TRUE
  /\ loading' = TRUE
  /\ view' = EmptyView
  /\ ui' = InitialUi
  /\ forms' = InitialForms
  /\ UNCHANGED <<now, addresses, recipients, tracked, history, logs, started,
                 lastWrite, fetches, hiddenPositions, hiddenStore, inactiveEmails>>

\* a row stored a day ago or longer, as an earlier session left it
StoredRow(k, st) ==
  [id |-> <<k, 1>>, position_key |-> k, address |-> k[1], asset |-> k[2],
   size |-> 2, side |-> Side(2), status |-> st, is_active |-> (st # "closed"),
   created_at |-> 0, closed_at |-> IF st = "closed" THEN 0 ELSE NoTime]

StoredTables ==
  {{}} \cup {{StoredRow(PositionKey("0xa1", "BTC"), st)} :
               st \in {"active", "closed"}}

\* the page is opened a day after the table was last written
InitRecover ==
  /\ now = NewWindowHours * HourMs
  /\ addresses = TwoWallets
  /\ recipients = {"ops@example.com"}
  /\ tracked \in StoredTables
  /\ history = <<>>
  /\ logs = [x \in LogKeys |-> 0]
  /\ priceCache = EmptyMap
  /\ effectCache = EmptyMap
  /\ isInitialLoad = TRUE
  /\ effectInitial = TRUE
  /\ loading = TRUE
  /\ started = 0
  /\ lastWrite = [k \in Keys |-> NoWrite]
  /\ fetches = {}
  /\ cycle = [c \in CycleIds |-> IdleCycle]
  /\ hiddenPositions = {}
  /\ ui = InitialUi
  /\ forms = InitialForms
  /\ hiddenStore = EmptyHiddenStore
  /\ inactiveEmails = {}
  /\ view = EmptyView

\* SpecRecover: two wallets, a table left by an earlier session, a store
\* whose calls all succeed, a clock that stands still, and cycles that may be
\* interrupted between their store writes
NextRecover ==
  \/ Start({1}, {"effect"})
  \/ Reconcile({1}, {TRUE}, {TRUE}, {0, 2}, AnyOrder)
  \/ Notify({1}, {TRUE}, {"sent"}, AnyOrder)
  \/ Prices({1}, {"ok"}, {50})
  \/ Interrupt(1)

SpecRecover == InitRecover /\ [][NextRecover]_vars

\* SpecOverlap: one wallet without notifications and two slots: a timer tick
\* may start a poll while the previous one still awaits its requests
NextOverlap ==
  \/ Start({1, 2}, {"effect", "timer"})
  \/ Reconcile({1, 2}, {TRUE}, {TRUE}, {0, 2}, AnyOrder)
  \/ \E c \in {1, 2}, k \in WalletKeys : UpsertWallet(c, k, TRUE)
  \/ Prices({1, 2}, {"ok"}, {50})

SpecOverlap == InitWith(QuietWallet) /\ [][NextOverlap]_vars

\* SpecSort: two wallets, a store whose calls all succeed, snapshot requests
\* that are all answered, days passing between the polls, and the user
\* clicking the Status column
NextSort ==
  \/ TickDay
  \/ Start({1}, {"effect"})
  \/ Reconcile({1}, {TRUE}, {TRUE}, {0, 2}, AddressOrder)
  \/ Notify({1}, {TRUE}, {"sent"}, AddressOrder)
  \/ Prices({1}, {"ok"}, {50})
  \/ handleSort("none", "status")

SpecSort == InitWith(TwoWallets) /\ [][NextSort]_vars

\* SpecUi: the user pages through the tabs, switches tabs and changes the
\* filters; every list is taken to be long enough for MaxPage pages
NextUi ==
  \/ handleSearchTrader("0xa1")
  \/ \E page \in 1..MaxPage : setCurrentPageForTab(page)
  \/ \E tab \in Tabs : setActiveTab(tab)
  \/ \E field \in Filters : \E value \in FilterValues[field] : setFilter(field, value)

SpecUi == InitWith(OneWallet) /\ [][NextUi]_vars

\* SpecForms: the user types into the add-address, add-email and bulk-add
\* fields and submits them; every insert may succeed or fail
StoredAddress == <<"0", "x", "a", "b", "c", "d", "e", "f", "0", "2">>
StoredEmail == <<"o", "p", "s", "@", "x", ".", "i", "o">>

AddressTexts ==
  { <<" ">>,
    <<"0", "x", "a", "b", "c", "d", "e", "f", "0">>,
    <<" ", "0", "x", "a", "b", "c", "d", "e", "f", "0", "1", " ">>,
    <<"0", "x", "a", "b", "c", "d", "e", "f", "0", "2", " ">> }

EmailTexts ==
  { <<" ">>,
    <<"a", "@", "b">>,
    <<"a", " ", "b", "@", "c", ".", "d">>,
    <<"a", "@", "b", ".", "c", " ">>,
    <<" ", "o", "p", "s", "@", "x", ".", "i", "o">> }

BulkTexts ==
  { <<" ", "\n">>,
    <<",", ";">>,
    <<"a", "@", "b", ".", "c", ",", " ", "d", "@", "e", ".", "f">>,
    <<"d", "@", "e", ".", "f", ";", "b", "a", "d", "@">>,
    <<"d", "@", "e", ".", "f", "\n", "o", "p", "s", "@", "x", ".", "i", "o">> }

InitForms ==
  /\ now = 0
  /\ addresses = <<Wallet(StoredAddress, TRUE)>>
  /\ recipients = {StoredEmail}
  /\ tracked = {}
  /\ history = <<>>
  /\ logs = [x \in LogKeys |-> 0]
  /\ priceCache = EmptyMap
  /\ effectCache = EmptyMap
  /\ isInitialLoad = TRUE
  /\ effectInitial = TRUE
  /\ loading = TRUE
  /\ started = 0
  /\ lastWrite = [k \in Keys |-> NoWrite]
  /\ fetches = {}
  /\ cycle = [c \in CycleIds |-> IdleCycle]
  /\ hiddenPositions = {}
  /\ view = EmptyView
  /\ ui = InitialUi
  /\ forms = InitialForms
  /\ hiddenStore = EmptyHiddenStore
  /\ inactiveEmails = {}

NextForms ==
  \/ \E ok \in BOOLEAN : openSettings(ok)
  \/ handleBack
  \/ \E text \in AddressTexts : setNewAddress(text)
  \/ \E text \in EmailTexts : setNewEmail(text)
  \/ \E text \in BulkTexts : setBulkEmails(text)
  \/ \E ok \in BOOLEAN : handleAddAddress(ok)
  \/ \E ok \in BOOLEAN : handleAddEmail(ok)
  \/ \E accepted \in SUBSET (1..2) : handleBulkAdd(accepted)

SpecForms == InitForms /\ [][NextForms]_vars

\* SpecHide: two wallets whose positions are shown, and the user clicking
\* the eye buttons without waiting for the store; a store call may fail
NextHide ==
  \/ Start({1}, {"effect"})
  \/ Reconcile({1}, {TRUE}, {TRUE}, {2}, AddressOrder)
  \/ Notify({1}, {TRUE}, {"sent"}, AddressOrder)
  \/ Prices({1}, {"ok"}, {50})
  \/ \E k \in WalletKeys : toggleHidePositionCall(k)
  \/ \E call \in hiddenStore.pending, ok \in BOOLEAN :
       toggleHidePositionSettles(call, ok)

SpecHide == InitWith(TwoWallets) /\ [][NextHide]_vars

\* SpecPages: one wallet whose first poll has published a position in each
\* of itemsPerPage + 1 assets, so that the Active and All tabs have a second
\* page; the user pages, switches tabs, and hides and shows the last rows
PagedKeys == {PositionKey("0xa1", ToString(i)) : i \in 1..(itemsPerPage + 1)}

PagedPositions ==
  [i \in 1..(itemsPerPage + 1) |->
     DisplayPosition(PositionKey("0xa1", ToString(i)), 50, "new")]

LastKeys ==
  {PositionKey("0xa1", ToString(i)) : i \in (itemsPerPage - 1)..(itemsPerPage + 1)}

InitPages ==
  /\ InitState(OneWallet)
  /\ view = [EmptyView EXCEPT !.positions = PagedPositions,
                              !.allPositions = PagedPositions]

NextPages ==
  \/ \E page \in 1..MaxPage : PaginationClick(page)
  \/ \E tab \in Tabs : setActiveTab(tab)
  \/ \E k \in LastKeys : toggleHidePosition(k, TRUE)

SpecPages == InitPages /\ [][NextPages]_vars

\* SpecEmails: the settings page with a store whose calls all succeed: the
\* user adds and removes notification emails
NextEmails ==
  \/ openSettings(TRUE)
  \/ handleBack
  \/ \E text \in EmailTexts : setNewEmail(text)
  \/ handleAddEmail(TRUE)
  \/ \E email \in forms.emails : confirmRemove(email, TRUE)

SpecEmails == InitForms /\ [][NextEmails]_vars

\* SpecDedup: getFilteredPositions applied to every list of at most MaxLen
\* positions over two keys, with every content of trackedPositions
DedupKeys == {PositionKey("0xa1", "BTC"), PositionKey("0xa2", "BTC")}

DisplayInputs ==
  {DisplayPosition(k, p, st) :
     k \in DedupKeys, p \in {0, 50}, st \in {"active", "new", "closed"}}

TrackedRow(k, st) ==
  [id |-> <<k, 1>>, position_key |-> k, address |-> k[1], asset |-> k[2],
   size |-> 2, side |-> Side(2), status |-> st, is_active |-> TRUE,
   created_at |-> 0, closed_at |-> NoTime]

TrackedInputs ==
  {S \in SUBSET {TrackedRow(k, st) : k \in DedupKeys, st \in {"active", "new"}} :
     \A k \in DedupKeys : Cardinality(RowsWithKey(S, k)) <= 1}

InitDedup ==
  /\ InitState(TwoWallets)
  /\ \E m \in 0..MaxLen : \E l \in [1..m -> DisplayInputs], tp \in TrackedInputs :
        view = [EmptyView EXCEPT !.allPositions = l, !.trackedPositions = tp]

NextDedup == \E k \in DedupKeys : toggleHidePosition(k, TRUE)

SpecDedup == InitDedup /\ [][NextDedup]_vars

----------------------------------------------------------------------------
(* Claims *)

StatusOf(rows, k) == RowOf(rows, k).status

\* C1: for every positionKey the stored status changes only along
\* new->active, new->closed, active->closed or closed->active, over any
\* sequence of poll cycles with store read and write failures; in particular
\* never from active to new.
C1_LifecycleMonotone ==
  [][\A k \in Keys :
       (HasKey(tracked, k) /\ HasKey(tracked', k)
          /\ StatusOf(tracked, k) # StatusOf(tracked', k))
       => <<StatusOf(tracked, k), StatusOf(tracked', k)>> \in
            {<<"new", "active">>, <<"new", "closed">>,
             <<"active", "closed">>, <<"closed", "active">>}]_vars

\* the fan-out of a cycle has completed
FanoutOver(c) == cycle[c].pc \in {"closing", "done"}

NotificationsEnabled(k) == WalletOf(k[1]).notifications_enabled

\* C3: a snapshot entry whose key has no stored record is stored with status
\* new and gets exactly one notification send attempt when its address has
\* notifications enabled and none when they are disabled, the attempts of the
\* poll cycle and of upsertTrackedPosition counted together.
C3_OneAttemptPerNewPosition ==
  \A c \in CycleIds :
    FanoutOver(c) =>
      \A k \in cycle[c].unstored :
        /\ HasKey(tracked, k)
        /\ cycle[c].attempts[k] = IF NotificationsEnabled(k) THEN 1 ELSE 0

\* C4: a closed position whose key is observed again by a later poll cycle is
\* reopened with status active (not new), on the same record.
C4_ReopenAsActive ==
  [][\A k \in Keys :
       (HasKey(tracked, k) /\ StatusOf(tracked, k) = "closed"
          /\ StatusOf(tracked', k) # "closed")
       => /\ StatusOf(tracked', k) = "active"
          /\ Cardinality(RowsWithKey(tracked', k)) = 1
          /\ RowOf(tracked', k).id = RowOf(tracked, k).id]_vars

\* C5: for every tracked position, status = closed iff isActive = false iff
\* closedAt is set.
C5_ClosedIffInactiveIffClosedAt ==
  \A r \in tracked :
    /\ (r.status = "closed") <=> (r.is_active = FALSE)
    /\ (r.is_active = FALSE) <=> (r.closed_at # NoTime)

\* C6: a tracked position is not closed by a cycle in which the snapshot
\* request for its address failed.
C6_NoCloseOnFailedSnapshot ==
  \A c \in CycleIds :
    \A k \in DOMAIN cycle[c].cpc : IndexOfAddress(k[1]) \notin cycle[c].failed

PrevKeys(c) == {p.position_key : p \in cycle[c].prev}

\* number of position_history rows for key k inserted since cycle c finished
AppendedBy(c, k) ==
  Cardinality({i \in (cycle[c].histBase + 1)..Len(history) :
                 history[i].position_key = k})

\* C2: with the previously tracked keys all active/new and a snapshot holding
\* only a subset S of them, one poll cycle closes exactly the tracked keys
\* outside S (status closed, isActive false, closedAt set), leaves the keys in
\* S open and appends exactly one PositionHistory record per closed key.
C2_ClosureCorrect ==
  \A c \in CycleIds :
    cycle[c].pc = "done" =>
      /\ DOMAIN cycle[c].cpc = PrevKeys(c) \ cycle[c].currentKeys
      /\ \A k \in PrevKeys(c) :
           LET r == RowOf(tracked, k) IN
           IF k \notin cycle[c].currentKeys
           THEN /\ r.status = "closed" /\ r.is_active = FALSE
                /\ r.closed_at # NoTime
                /\ AppendedBy(c, k) = 1
           ELSE /\ r.status \in {"new", "active"} /\ r.is_active = TRUE
                /\ AppendedBy(c, k) = 0

\* a cycle that tracked three keys closed two of them and kept the third
C2_Witness ==
  \E c \in CycleIds :
    /\ cycle[c].pc = "done"
    /\ Cardinality(PrevKeys(c)) = 3
    /\ Cardinality(DOMAIN cycle[c].cpc) = 2
    /\ Cardinality(PrevKeys(c) \cap cycle[c].currentKeys) = 1

\* C7: the positions to close are computed only after the snapshot requests
\* of all address batches have settled, so a key that appears in any batch of
\* the cycle is never closed by that cycle.
C7_CloseAfterAllBatches ==
  \A c \in CycleIds :
    cycle[c].pc \in {"closing", "done"} =>
      /\ cycle[c].answered = AddressIndex
      /\ cycle[c].pending = {}
      /\ DOMAIN cycle[c].cpc \cap cycle[c].currentKeys = {}

\* a two-batch cycle closed a key of the first batch while a tracked key of
\* the second batch, present in the snapshot, stayed open
C7_Witness ==
  \E c \in CycleIds :
    /\ cycle[c].pc = "done"
    /\ cycle[c].batch = 2
    /\ PositionKey("0xa1", "BTC") \in DOMAIN cycle[c].cpc
    /\ PositionKey("0xa4", "BTC") \in PrevKeys(c) \cap cycle[c].currentKeys

\* cycle c's upsert of key k is applied by this step
UpsertApplied(c, k) ==
  /\ k \in DOMAIN cycle[c].upc
  /\ cycle[c].upc[k] = "checked"
  /\ k \in cycle'[c].written

\* C10: calling upsertTrackedPosition twice with identical data leaves exactly
\* one stored record for that positionKey, with the identity and the status it
\* had after the first call.
C10_IdempotentUpsert ==
  [][\A c \in CycleIds, k \in Keys :
       (/\ UpsertApplied(c, k)
        /\ cycle'[c].upc[k] # "checked"
        /\ lastWrite[k].op = "upsert"
        /\ lastWrite[k].size = UpdateOf(cycle[c], k).size
        /\ lastWrite[k].status = UpdateOf(cycle[c], k).status)
       => /\ Cardinality(RowsWithKey(tracked', k)) = 1
          /\ RowOf(tracked', k).id = RowOf(tracked, k).id
          /\ RowOf(tracked', k).status = RowOf(tracked, k).status]_vars

\* the same data has been upserted twice in a row for some key
C10_Witness ==
  \E k \in Keys : lastWrite[k].op = "upsert" /\ lastWrite[k].n = 2

\* cycle c calls fetchCurrentPrices in this step
PriceRequested(c) == cycle[c].pc = "ready" /\ cycle'[c].pc = "fanout"

\* the successful fetches less than 30 seconds old
RecentFetches == {f \in fetches : now - f.at < 30000}

C9_StaleCacheOnFailure ==
  \A c \in CycleIds :
    (cycle[c].pricePc = "done" /\ cycle[c].priceOutcome \in {"non2xx", "throw"})
      => cycle[c].currentPrices =
           IF DOMAIN cycle[c].seenCache \ {TS} # {}
           THEN cycle[c].seenCache ELSE EmptyMap

StatusPriority(st) ==
  CASE st = "active" -> 3 [] st = "new" -> 2 [] st = "closed" -> 1

C12_AllViewComplete ==
  \A c \in CycleIds :
    cycle[c].pc = "done" =>
      (cycle[c].currentKeys \cup {r.position_key : r \in tracked})
         \subseteq KeysOf(filteredAllPositions)

\* the keys of the display lists
DisplayedKeys ==
  KeysOf(view.positions) \cup KeysOf(view.newPositions)
    \cup KeysOf(view.closedPositions) \cup KeysOf(view.allPositions)

\* C13: a position whose key is in the HiddenPositionSet appears in the All
\* view and in the Hidden view, and in none of the Active, New and Closed views.
C13_HiddenInAllAndHiddenOnly ==
  \A k \in hiddenPositions \cap DisplayedKeys :
    /\ k \in KeysOf(filteredAllPositions)
    /\ k \in KeysOf(hiddenPositionsList)
    /\ k \notin KeysOf(visiblePositions)
    /\ k \notin KeysOf(filteredNewPositions)
    /\ k \notin KeysOf(filteredClosedPositions)

\* C14: each live-snapshot position is shown in the Active tab or in the New
\* tab according to the status the cycle classified it with, so no key is
\* shown in both tabs.
C14_TabByClassification ==
  \A c \in CycleIds :
    cycle[c].pc = "done" =>
      \A k \in cycle[c].currentKeys \ hiddenPositions :
        LET status == UpdateOf(cycle[c], k).status
        IN /\ (k \in KeysOf(visiblePositions)) <=> (status = "active")
           /\ (k \in KeysOf(filteredNewPositions)) <=> (status = "new")

\* C15: the New tab lists every tracked position with status new that was
\* opened within the last 24 hours (the rows as the cycle read them).
C15_NewTabLast24Hours ==
  \A c \in CycleIds :
    cycle[c].pc = "done" =>
      \A r \in cycle[c].allData :
        (/\ r.status = "new"
         /\ r.created_at > cycle[c].readAt - NewWindowHours * HourMs
         /\ r.position_key \notin hiddenPositions)
        => r.position_key \in KeysOf(filteredNewPositions)

\* cycle c stays in its fan-out over this step and has key k in hand
InFanout(c, k) ==
  /\ cycle[c].pc = "fanout" /\ cycle'[c].pc = "fanout"
  /\ k \in DOMAIN cycle[c].calls

\* C16: every notification send attempt, whether the transport accepts it,
\* answers with an error or throws, is recorded in an audit log entry carrying
\* the position's address, asset and size and a sent flag equal to the
\* attempt's outcome.
C16_AttemptsLogged ==
  [][\A c \in CycleIds, k \in Keys :
       (InFanout(c, k) /\ cycle'[c].attempts[k] = cycle[c].attempts[k] + 1)
       => LET size == UpdateOf(cycle[c], k).size
              sent == cycle'[c].result[k]
          IN /\ logs'[<<k, size, sent>>] >= logs[<<k, size, sent>>] + 1
             /\ sent => logs'[<<k, size, FALSE>>] = logs[<<k, size, FALSE>>]
             /\ ~sent => logs'[<<k, size, TRUE>>] = logs[<<k, size, TRUE>>]]_vars

\* a key has both a failed and an accepted attempt in the audit log
C16_Witness ==
  \E c \in CycleIds : \E k \in DOMAIN cycle[c].attempts :
    /\ cycle[c].attempts[k] >= 2
    /\ \E size \in Szis \ {0} :
         logs[<<k, size, FALSE>>] > 0 /\ logs[<<k, size, TRUE>>] > 0

\* C17: when the active recipient list is empty, sendPositionNotification
\* returns false without calling the send endpoint.
C17_NoRecipientNoSend ==
  [][\A c \in CycleIds, k \in Keys :
       (/\ InFanout(c, k)
        /\ cycle'[c].calls[k] = cycle[c].calls[k] + 1
        /\ recipients = {})
       => /\ cycle'[c].attempts[k] = cycle[c].attempts[k]
          /\ cycle'[c].result[k] = FALSE]_vars

\* sendPositionNotification was called for a key without any transport call
C17_Witness ==
  \E c \in CycleIds : \E k \in DOMAIN cycle[c].calls :
    cycle[c].calls[k] > 0 /\ cycle[c].attempts[k] = 0

\* C18: for a new position the retry loop of upsertTrackedPosition makes at
\* most 3 attempts and then ends, whatever the outcome of each attempt, and
\* the upsert still returns the stored record.
C18_BoundedRetry ==
  \A c \in CycleIds : \A k \in DOMAIN cycle[c].upc :
    /\ cycle[c].attemptCount[k] <= maxAttempts
    /\ cycle[c].upc[k] = "retry" => cycle[c].attemptCount[k] < maxAttempts
    /\ (cycle[c].attemptCount[k] > 0 /\ cycle[c].upc[k] = "done")
         => k \in cycle[c].written /\ HasKey(tracked, k)

\* the loop of a key ended after three attempts none of which was accepted
C18_Witness ==
  \E c \in CycleIds : \E k \in DOMAIN cycle[c].upc :
    /\ cycle[c].attemptCount[k] = maxAttempts
    /\ cycle[c].attempts[k] >= maxAttempts
    /\ cycle[c].upc[k] = "done"
    /\ \A size \in Szis \ {0} : logs[<<k, size, TRUE>>] = 0

\* the upserts of cycle c: one per snapshot position, each settled, the keys
\* whose upsert failed earlier and that the cycle observes among them, and
\* the cycle's positions published
UpsertsIssued(c) ==
  LET cy == cycle[c]
  IN /\ cy.pc \in {"fanout", "closing", "done"}
        => /\ DOMAIN cy.upc = cy.currentKeys
           /\ cy.written \cup cy.writeFailed \subseteq DOMAIN cy.upc
     /\ FanoutOver(c)
        => /\ \A k \in DOMAIN cy.upc : cy.upc[k] = "done"
           /\ cy.written \cup cy.writeFailed = cy.currentKeys
           /\ cy.failedBefore \cap cy.currentKeys
                \subseteq cy.written \cup cy.writeFailed
           /\ KeysOf(view.positions) = cy.currentKeys
           /\ ~loading

\* C19: when the store upsert of one position fails, the upserts of the other
\* positions of the cycle are still issued, the cycle completes and publishes
\* its positions, and the next cycle that observes the failed key upserts it
\* again.
C19_UpsertFailureIsolated ==
  /\ [](\A c \in CycleIds : UpsertsIssued(c))
  /\ \A c \in CycleIds : (cycle[c].pc = "fanout" ~> FanoutOver(c))

\* a cycle completed in which one upsert failed, another was stored, and a
\* key whose upsert had failed in an earlier cycle was stored
C19_Witness ==
  \E c \in CycleIds :
    /\ cycle[c].pc = "done"
    /\ cycle[c].writeFailed # {}
    /\ cycle[c].failedBefore \cap cycle[c].written # {}
    /\ KeysOf(view.positions) = cycle[c].currentKeys

\* the keys of the addresses whose request failed / was answered in cycle c
KeysOfAddresses(I) ==
  {PositionKey(addresses[i].address, s) : i \in I, s \in Assets}

\* a failed request contributes no position; once the cycle has published,
\* every address of every batch has been requested and the positions of the
\* answered ones, and only those, are displayed
FailedContributeNothing(c) ==
  LET cy == cycle[c]
  IN /\ KeysOfAddresses(cy.failed) \cap cy.currentKeys = {}
     /\ {u.position_key : u \in cy.updates} = cy.currentKeys
     /\ FanoutOver(c)
        => /\ cy.answered = AddressIndex
           /\ cy.currentKeys = KeysOfAddresses(AddressIndex \ cy.failed)
           /\ KeysOf(visiblePositions) = cy.currentKeys
           /\ ~loading

\* C20: a failed snapshot request contributes zero positions to its cycle,
\* the other addresses of the same and of later batches are still fetched and
\* displayed, and the cycle completes.
C20_SnapshotFailureIsolated ==
  /\ [](\A c \in CycleIds : FailedContributeNothing(c))
  /\ \A c \in CycleIds : (cycle[c].pc = "fetching" ~> FanoutOver(c))

\* a cycle completed in which a request of the first batch failed while an
\* address of the first batch and one of the second are displayed
C20_Witness ==
  \E c \in CycleIds :
    /\ FanoutOver(c)
    /\ NumBatches = 2
    /\ cycle[c].failed \cap BatchMembers(1) # {}
    /\ KeysOf(visiblePositions) \cap KeysOfAddresses(BatchMembers(1)) # {}
    /\ KeysOf(visiblePositions) \cap KeysOfAddresses(BatchMembers(2)) # {}

\* the snapshot requests of cycle c that are in flight
InFlight(c) ==
  IF cycle[c].pc = "fetching" THEN cycle[c].pending ELSE {}

\* C21: within one poll cycle at most 3 snapshot requests are in flight at
\* any time, and no request of batch k+1 is issued before every request of
\* batch k has completed and the delay between the two batches has elapsed.
C21_BoundedBatches ==
  \A c \in CycleIds :
    /\ Cardinality(InFlight(c)) <= batchSize
    /\ \A i \in InFlight(c) :
         /\ i \in BatchMembers(cycle[c].batch)
         /\ \A b \in 1..(cycle[c].batch - 1) :
              BatchMembers(b) \subseteq cycle[c].answered
         /\ cycle[c].delays = cycle[c].batch - 1

\* the request of the second batch is in flight, after three requests were
\* in flight together and all were answered
C21_Witness ==
  \E c \in CycleIds :
    /\ cycle[c].batch = 2
    /\ InFlight(c) # {}
    /\ Cardinality(BatchMembers(1)) = batchSize
    /\ cycle[c].delays = 1

\* cycle c appends the PositionHistory record of key k in this step
HistoryAppended(c, k) ==
  /\ k \in DOMAIN cycle[c].cpc
  /\ cycle[c].cpc[k] = "updated"
  /\ cycle'[c] # cycle[c]
  /\ Len(history') = Len(history) + 1
  /\ history'[Len(history')].position_key = k

\* C22: when a tracked position is closed and the price source answered the
\* cycle with a price p for its asset, the recorded finalPnl is
\* (p - entryPrice) * size and the exit price is p; the entry price stands in
\* (finalPnl 0) only when the source gave no price for the asset.
C22_FinalPnlFromCurrentPrice ==
  [][\A c \in CycleIds, k \in Keys :
       HistoryAppended(c, k)
       => LET rec == history'[Len(history')]
              up == cycle[c].mids
          IN /\ k[2] \in DOMAIN up
                => /\ rec.exit_price = up[k[2]]
                   /\ rec.pnl = (up[k[2]] - EntryPrice) * rec.size
             /\ (rec.exit_price = EntryPrice /\ rec.pnl = 0)
                => k[2] \notin DOMAIN up]_vars

\* C23: a cycle that runs after an interrupted or a complete cycle over the
\* same snapshot leaves each key's tracked record (status, is_active, size)
\* as the earlier cycle's write left it: the upsert of a key whose last store
\* write was the upsert of the same snapshot entry changes nothing.
C23_ReconcileIdempotent ==
  [][\A c \in CycleIds, k \in Keys :
       (/\ UpsertApplied(c, k)
        /\ lastWrite[k].op = "upsert"
        /\ lastWrite[k].size = UpdateOf(cycle[c], k).size)
       => /\ RowOf(tracked', k).status = RowOf(tracked, k).status
          /\ RowOf(tracked', k).is_active = RowOf(tracked, k).is_active
          /\ RowOf(tracked', k).size = RowOf(tracked, k).size]_vars

\* cycle c is between its entry and the settling of its last store call
InFlightCycle(c) == cycle[c].pc \notin {"idle", "done"}

\* C24: while a poll cycle still awaits I/O, a timer tick starts a second
\* cycle that runs concurrently with it: once the interval is armed, the
\* tick is never refused because a cycle is in flight.
C24_OverlapNotPrevented ==
  (/\ InFlightCycle(1)
   /\ ~InFlightCycle(2)
   /\ ~effectInitial
   /\ started < MaxCycles)
  => ENABLED StartCycle(2, "timer")

\* two cycles are in flight, the second started by a timer tick
C24_Witness ==
  /\ InFlightCycle(1)
  /\ InFlightCycle(2)
  /\ cycle[2].kind = "timer"

\* the All tab as rendered: filtered, then sorted by the selected column
sortedAllPositions ==
  sortPositions(filteredAllPositions, view.trackedPositions, ui.sortConfig)

\* the last cycle has settled and the table is as that cycle read it
ViewCurrent == cycle[1].pc = "done" /\ cycle[1].allData = tracked

\* C25: sorted by the status column, the positions are ordered by their
\* stored lifecycle status, so that a closed position is on the low side of
\* every active and every new position: before them ascending, behind them
\* descending.
C25_StatusSortOrder ==
  (ui.sortConfig.customSort = "status" /\ ViewCurrent)
  => LET out == sortedAllPositions
         stored(i) == StatusOf(tracked, out[i].positionKey)
     IN \A i, j \in 1..Len(out) :
          (stored(i) = "closed" /\ stored(j) \in {"active", "new"})
          => IF ui.sortConfig.direction = "asc" THEN i < j ELSE j < i

FilterState(u) ==
  <<u.selectedCrypto, u.selectedTrader, u.cryptoFilter, u.traderFilter>>

\* C26: changing the page on one tab leaves every other tab's page number
\* unchanged, switching tabs changes no page number, and changing any of the
\* four filters sets the page number of all five tabs to 1.
C26_PaginationPerTab ==
  [][/\ FilterState(ui') # FilterState(ui)
        => ui'.tabPagination = [t \in Tabs |-> 1]
     /\ FilterState(ui') = FilterState(ui)
        => /\ \A t \in Tabs \ {ui.activeTab} :
                ui'.tabPagination[t] = ui.tabPagination[t]
           /\ ui'.activeTab # ui.activeTab
                => ui'.tabPagination = ui.tabPagination]_vars

\* with a filter set, two tabs have been paged forward and a third is shown
C26_Witness ==
  /\ FilterState(ui) # FilterState(InitialUi)
  /\ ui.tabPagination["active"] = MaxPage
  /\ ui.tabPagination["closed"] = MaxPage
  /\ ui.tabPagination["new"] = 1
  /\ ui.activeTab = "all"

\* the add-address input fails validation: empty, shorter than ten characters
\* or already in the list, after trimming
InvalidAddress(text, list) ==
  \/ trim(text) = <<>>
  \/ Len(trim(text)) < 10
  \/ HasAddress(list, trim(text))

\* the add-email input fails validation: empty, malformed or already listed
InvalidEmail(text, list) ==
  \/ trim(text) = <<>>
  \/ ~validateEmail(trim(text))
  \/ trim(text) \in list

\* the bulk input fails validation: empty, or an entry malformed or listed
InvalidBulk(text, list) ==
  \/ emailList(text) = <<>>
  \/ \E i \in 1..Len(emailList(text)) : InvalidEmail(emailList(text)[i], list)

\* C27: a submit of the add-address, add-email or bulk-add form whose input
\* fails validation sets the form's error message and issues no store write:
\* the persisted addresses and notification emails are as they were
C27_InvalidInputRejected ==
  [][forms'.tick # forms.tick
       => /\ (forms'.lastAction = "addAddress"
                /\ InvalidAddress(forms.newAddress, addresses))
             => /\ forms'.error # "none"
                /\ ~forms'.wrote
                /\ addresses' = addresses
                /\ recipients' = recipients
          /\ (\/ forms'.lastAction = "addEmail"
                   /\ InvalidEmail(forms.newEmail, forms.emails)
              \/ forms'.lastAction = "bulkAdd"
                   /\ InvalidBulk(forms.bulkEmails, forms.emails))
             => /\ forms'.emailError # "none"
                /\ ~forms'.wrote
                /\ addresses' = addresses
                /\ recipients' = recipients]_vars

\* after an address and an email were added, a bulk list with a malformed
\* entry has been refused
C27_Witness ==
  /\ Len(addresses) = 2
  /\ Cardinality(recipients) = 2
  /\ forms.lastAction = "bulkAdd"
  /\ ~forms.wrote
  /\ forms.emailError = "Invalid email format"
  /\ InvalidBulk(forms.bulkEmails, forms.emails)

\* the keys whose tracked row the poll cycle in slot c has closed
ClosedBy(cy) ==
  {k \in DOMAIN cy.cpc : k \in DOMAIN cy.closeRow /\ cy.cpc[k] = "done"
                         /\ HasKey(tracked, k) /\ RowOf(tracked, k).status = "closed"}

\* C28: when the poll cycle has closed a tracked position of a wallet with
\* notifications enabled and there is a recipient, the send-email function
\* has been invoked for it in that cycle (the closure notification carrying
\* the final P&L)
C28_ClosureEmailSent ==
  \A c \in CycleIds :
    cycle[c].pc = "done"
      => \A k \in ClosedBy(cycle[c]) :
           NotificationsEnabled(k) /\ recipients # {}
             => MapGetOr(cycle[c].attempts, k, 0) > 0

\* the snapshot entries of a cycle whose key had a stored record, of whatever
\* status, when the entry was parsed
StoredBefore(cy) == cy.currentKeys \ cy.unstored

\* C29: no new-position notification is attempted for a snapshot entry whose
\* key already has a stored tracked record of any status, whatever the
\* cycle's read of the previously tracked positions returned
C29_NoNotificationForStoredKey ==
  \A c \in CycleIds :
    \A k \in StoredBefore(cycle[c]) : MapGetOr(cycle[c].attempts, k, 0) = 0

\* this step appends a position_history record for key k
HistoryInsert(k) ==
  /\ Len(history') = Len(history) + 1
  /\ history'[Len(history')].position_key = k

\* C30: when two overlapping poll cycles both find a tracked key absent from
\* their snapshots, its closure is recorded once: the update that sets
\* closed_at and final_pnl is not applied again to the closed row, and
\* position_history gets no second record for it
C30_ClosureRecordedOnce ==
  [][\A k \in Keys :
       /\ lastWrite'[k].op = "close" => lastWrite'[k].n = 1
       /\ (HistoryInsert(k) /\ lastWrite[k].op = "close") => lastWrite[k].n = 1]_vars

HistoryHas(k) == \E i \in 1..Len(history) : history[i].position_key = k

\* C31: whatever store calls failed, once a poll cycle has completed, every
\* tracked position its closeTrackedPosition calls have set to status closed
\* has a position_history record with the same position key
C31_ClosedHasHistory ==
  \A c \in CycleIds :
    cycle[c].pc = "done" => \A k \in ClosedBy(cycle[c]) : HistoryHas(k)

\* cycle c has run its state publication (setPriceCache ... setPositions)
HasPublished(c) == cycle[c].pc \in {"closing", "done"}

\* C32: when two poll cycles have both published, the displayed positions,
\* the tab lists and the price cache are those of the cycle that started
\* last: an earlier-started cycle never overwrites a later-started one
C32_LastStartedWins ==
  \A c, d \in CycleIds :
    (HasPublished(c) /\ HasPublished(d) /\ cycle[c].seq < cycle[d].seq)
      => /\ view = Published(cycle[d], view)
         /\ priceCache = cycle[d].currentPrices

\* fetchPositions of slot c has been entered and has not reached its finally
InFetch(c) == cycle[c].pc \in {"reading", "fetching", "delay", "ready", "fanout"}

\* C33: once polling has begun, loading is true exactly while a poll cycle
\* is running, so the refresh button (disabled while loading) cannot start a
\* cycle while another one runs
C33_LoadingWhileInFlight ==
  started > 0 =>
    /\ loading <=> \E c \in CycleIds : InFetch(c)
    /\ (\E c \in CycleIds : InFetch(c))
         => \A d \in CycleIds : ~ENABLED StartCycle(d, "refresh")

\* this step is the state publication of cycle c
Publishes(c) == cycle[c].pc = "fanout" /\ cycle'[c].pc # "fanout"

\* C34: a poll cycle whose allMids request failed (non-2xx response or a
\* thrown error) leaves the stored price cache and its timestamp as they were
C34_FailedPriceKeepsCache ==
  [][\A c \in CycleIds :
       (Publishes(c) /\ cycle[c].priceOutcome \in {"non2xx", "throw"})
         => priceCache' = priceCache]_vars

\* the notification_logs rows of key k with size size, sent or not
LogRows(lg, k, size) == lg[<<k, size, TRUE>>] + lg[<<k, size, FALSE>>]

\* C35: the audit-log entries written for a newly observed position are as
\* many as the transport send attempts made for it: over every step of a
\* cycle's fan-out, the rows added for a key equal the attempts added for it
C35_OneLogPerAttempt ==
  [][\A c \in CycleIds, k \in Keys :
       InFanout(c, k)
         => LET size == UpdateOf(cycle[c], k).size
            IN LogRows(logs', k, size) - LogRows(logs, k, size)
                 = cycle'[c].attempts[k] - cycle[c].attempts[k]]_vars

\* C36: whatever the interleaving of hide and unhide toggles, with toggles on
\* other keys issued while a store call is pending and store calls that fail,
\* once every call has completed the in-memory hidden set equals the
\* persisted hidden set
C36_HiddenSetMatchesStore ==
  hiddenStore.pending = {} => hiddenPositions = hiddenStore.rows

\* this step enters fetchPositions in slot c, started by kind
Starts(c, kind) ==
  /\ cycle[c].pc \in {"idle", "done"}
  /\ cycle'[c].pc = "reading"
  /\ cycle'[c].kind = kind

\* C37: mounting with a non-empty address list starts one poll cycle and no
\* more until a timer tick does: the effect run that follows the end of the
\* initial load (isInitialLoad has changed since the effect last ran) starts
\* no further cycle, and no timer tick starts a cycle while the initial load
\* is in progress
C37_OneCycleBeforeFirstTick ==
  [][\A c \in CycleIds :
       /\ Starts(c, "timer") => ~isInitialLoad
       /\ ~(Starts(c, "effect") /\ started > 0
              /\ effectInitial /\ ~isInitialLoad)]_vars

\* C38: for every tab the stored page number lies within 1..max(1, totalPages)
\* of the tab's current filtered list, so a non-empty list never renders an
\* empty page
C38_PageWithinRange ==
  \A tab \in Tabs :
    LET positionsList == TabList(tab)
        totalPages == getTotalPages(Len(positionsList))
        page == ui.tabPagination[tab]
    IN /\ page >= 1
       /\ page <= (IF totalPages > 1 THEN totalPages ELSE 1)
       /\ positionsList # <<>> => getPaginatedPositions(positionsList, page) # <<>>

\* this step is a submit of the add-email form
AddEmailSubmit == forms'.tick # forms.tick /\ forms'.lastAction = "addEmail"

\* C39: adding again an email that was removed succeeds and leaves it in the
\* active recipient list getNotificationEmails returns (the store answers
\* every call)
C39_ReAddAfterRemove ==
  [][(AddEmailSubmit /\ trim(forms.newEmail) \in inactiveEmails
        /\ ~InvalidEmail(forms.newEmail, forms.emails))
       => /\ trim(forms.newEmail) \in recipients'
          /\ forms'.emailError = "none"]_vars

====
